---- MODULE Spec2Model ----
(***************************************************************************)
(* Model of the MangaDex library exporter (src/main.py, src/main2.py).     *)
(*                                                                         *)
(*   SpecTransport : request_with_retry and login (both program variants)  *)
(*   SpecEnrich    : get_manga_info / fetch_and_prepare_manga_info (main2)  *)
(*   SpecSync      : sync_to_anilist (main2), sync_unlisted_to_anilist      *)
(*   SpecPartition : import_to_anilist_then_export (main2)                  *)
(*   SpecXml       : export_manga_list_to_xml and the sink it hands over to *)
(*   SpecFiles     : export_all and the files it writes                     *)
(*   SpecThreads   : request_with_retry in threads sharing one session      *)
(*   SpecPayload   : sync_to_anilist on the items get_manga_info returns    *)
(*   SpecCsv       : export_manga_list_to_csv (main2)                       *)
(*   SpecMenu      : main(), ensure_valid_session and the transport         *)
(***************************************************************************)
EXTENDS Integers, Sequences, FiniteSets, TLC

VARIABLES
    \* ---- transport ----
    variant,              \* "main" (src/main.py) or "main2" (src/main2.py)
    stack,                \* call stack of request_with_retry activations
    SESSION_TOKENS,       \* module global, main2.py:20
    SESSION_CREDENTIALS,  \* module global, main2.py:21
    obs,                  \* history of the bottom (caller-facing) activation
    \* ---- enrichment (get_manga_info, main2.py:103-233) ----
    manga_ids,            \* the input id list
    status_map,           \* id -> reading status, from get_manga_library
    epc,                  \* position of the orchestrating thread
    user_language,        \* main2.py:111/114
    bidx,                 \* number of the batch being processed (1-based)
    data,                 \* the manga dicts of the current batch's response
    read_status_map,      \* main2.py:161-171
    ratings_map,          \* main2.py:173-181
    futures,              \* main2.py:182, the (manga, future) pairs
    cidx,                 \* next pair of `futures` to collect
    all_info,             \* main2.py:105
    returned,             \* what get_manga_info handed to its caller
    caller,               \* main(): waiting for the fetch, running sinks, terminated
    sinkInput,            \* the list the sinks were run on
    eobs,                 \* which calls of the run failed
    \* ---- remote import sink (sync_to_anilist, main2.py:458-559) ----
    mangas,               \* the list handed to the sink
    spc,                  \* position in the sink
    manga_with_al_id,     \* main2.py:463
    manga_without_al_id,  \* main2.py:464
    sidx,                 \* index of the loop at main2.py:489
    mutations,            \* ids for which a mutation call was issued, in order
    csvOut,               \* the CSV file the sink wrote, if any
    sobs,                 \* outcomes of the mutation calls
    \* ---- import_to_anilist_then_export (main2.py:717-740) ----
    manga_info,           \* the list to split
    ppc,                  \* position in the function
    pidx,                 \* index of the loop at main2.py:722
    manga_with_alid,      \* main2.py:719
    manga_with_malid,     \* main2.py:720
    manga_unlinked,       \* main2.py:721
    dispatched,           \* the sink calls made after the split, in order
    \* ---- export_manga_list_to_xml (main2.py:343-455, main.py:226-359) ----
    manga_info_list,      \* the list handed to the XML export
    xpc,                  \* position in the function
    xidx,                 \* index of the loop at main2.py:369
    exported,             \* main2.py:352
    not_found,            \* main2.py:353
    totals,               \* total_reading ... total_plantoread, by label
    entries,              \* the <manga> elements appended to the root
    unlinked,             \* main2.py:354
    xmlFile,              \* the XML document written, if any
    answer,               \* the operator's answer at main2.py:448
    byMalCsv,             \* the CSV written at main2.py:452/455, if any
    \* ---- the export directory and export_all (main2.py:604-623, main.py:464-483) ----
    exportDir,            \* whether the directory export/ exists
    fileset,              \* the files in export/
    choices,              \* the choices main() handed to export_all
    fstep,                \* position in export_all
    fwrites,              \* every open(file, "w"): was its directory there
    \* ---- the session shared by the threads (main2.py:130-149, 182-197, 679-696) ----
    session_headers,      \* session.headers['Authorization'], one dict for all
    thr,                  \* per thread: its activation of request_with_retry
    hobs,                 \* what was sent once a re-login had completed
    \* ---- export_manga_list_to_csv (main2.py:625-671) ----
    csv_items,            \* the list handed to the CSV export
    cpc,                  \* position in the function
    crow,                 \* index of the loop at main2.py:640
    csvfile,              \* the rows of the file, if there is one
    csvruns,              \* invocations that have ended
    csvfirst,             \* the file as the first invocation left it
    \* ---- main() and ensure_valid_session (main2.py:59-90, 742-776, main.py:50-80, 553-577) ----
    mpc,                  \* position in main() / ensure_valid_session
    menu_choices,         \* main2.py:752, the parsed choices
    tokens,               \* the local `tokens` of ensure_valid_session
    username,             \* the user name typed at the login prompt
    mround,               \* input lines read so far
    mlog,                 \* what main() has done since the last input line
    loggedOut             \* a logout, and no interactive login since

tvars == <<variant, stack, SESSION_TOKENS, SESSION_CREDENTIALS, obs>>

evars == <<manga_ids, status_map, epc, user_language, bidx, data,
           read_status_map, ratings_map, futures, cidx, all_info, returned,
           caller, sinkInput, eobs>>

svars == <<mangas, spc, manga_with_al_id, manga_without_al_id, sidx,
           mutations, csvOut, sobs>>

pvars == <<manga_info, ppc, pidx, manga_with_alid, manga_with_malid,
           manga_unlinked, dispatched>>

xvars == <<manga_info_list, xpc, xidx, exported, not_found, totals, entries,
           unlinked, xmlFile, answer, byMalCsv>>

fvars == <<exportDir, fileset, choices, fstep, fwrites>>

hvars == <<session_headers, thr, hobs>>

cvars == <<csv_items, cpc, crow, csvfile, csvruns, csvfirst>>

mvars == <<mpc, menu_choices, tokens, username, mround, mlog, loggedOut>>

vars == <<tvars, evars, svars, pvars, xvars, fvars, hvars, cvars, mvars>>

\* The variables a subsystem leaves alone
notTransport == <<evars, svars, pvars, xvars, fvars, hvars, cvars, mvars>>

notEnrich == <<tvars, svars, pvars, xvars, fvars, hvars, cvars, mvars>>

notSync == <<tvars, evars, pvars, xvars, fvars, hvars, cvars, mvars>>

notPartition == <<tvars, evars, svars, xvars, fvars, hvars, cvars, mvars>>

notXml == <<tvars, evars, svars, pvars, fvars, hvars, cvars, mvars>>

notFiles == <<tvars, evars, svars, pvars, xvars, hvars, cvars, mvars>>

\* (a thread rewrites SESSION_TOKENS)
notThreads == <<variant, stack, SESSION_CREDENTIALS, obs, evars, svars, pvars,
                xvars, fvars, cvars, mvars>>

notCsv == <<tvars, evars, svars, pvars, xvars, fvars, hvars, mvars>>

\* (the menu calls the transport and rewrites the session globals)
notMenu == <<variant, evars, svars, pvars, xvars, fvars, hvars, cvars>>

None == "None"

\* An optional value: Nothing, or Some(x)
Nothing == <<>>

Some(x) == <<x>>

(***************************************************************************)
(* Transport: request_with_retry                                           *)
(***************************************************************************)

\* main2.py:673 / main.py:533  max_retries=6
max_retries == 6

\* Depth of nested request_with_retry activations at which Python raises
\* RecursionError (the interpreter's recursion limit, scaled down).
MaxDepth == 2

LOGIN_ENDPOINT == "https://api.mangadex.org/auth/login"
MANGA_ENDPOINT == "https://api.mangadex.org/manga"
ANILIST_ENDPOINT == "https://graphql.anilist.co"
Urls == {LOGIN_ENDPOINT, MANGA_ENDPOINT, ANILIST_ENDPOINT}

\* Session tokens: T0 is the token the session starts with, the login
\* endpoint hands out any token of Tokens; AL is the AniList access token.
Tokens == {"T1", "T2"}

\* What the remote can do with one HTTP request: fail at the network level
\* (ConnectionError / Timeout) or answer with a status.
Responses == {"net", "200", "401", "500"}

\* main2.py:681  `'LOGIN_ENDPOINT' not in url` is a substring test for the
\* text 'LOGIN_ENDPOINT' (a quoted literal, not the constant's value); no URL
\* the program requests contains that text.
UrlsContainingLiteral == {}

CredentialsForNever(url) == None

\* main2.py:681  credentials = load_credentials() if 'LOGIN_ENDPOINT' not in url else None
CredentialsFor(url) ==
    IF url \notin UrlsContainingLiteral THEN SESSION_CREDENTIALS ELSE None

\* The headers a caller passes: the session's bearer token for MangaDex API
\* calls, the AniList access token for AniList, none for the login call.
InitialHeader(url) ==
    CASE url = MANGA_ENDPOINT   -> "T0"
      [] url = ANILIST_ENDPOINT -> "AL"
      [] OTHER                  -> None

Frame(url, hdr) ==
    [url |-> url, attempt |-> 0, pc |-> "send", hdr |-> hdr, exc |-> None]

Top == stack[Len(stack)]

ReplaceTop(f) == [stack EXCEPT ![Len(stack)] = f]

OnNetworkErrorOneMore(f) ==
    IF f.attempt < max_retries
    THEN [f EXCEPT !.attempt = f.attempt + 1, !.pc = "send"]
    ELSE [f EXCEPT !.pc = "exc", !.exc = "ConnectionError"]

\* main2.py:705-711 / main.py:540-546  except (ConnectionError, Timeout)
OnNetworkError(f) ==
    IF f.attempt < max_retries - 1
    THEN [f EXCEPT !.attempt = f.attempt + 1, !.pc = "send"]
    ELSE [f EXCEPT !.pc = "exc", !.exc = "ConnectionError"]

OnHTTPErrorRetried(f) ==
    IF f.attempt < max_retries - 1
    THEN [f EXCEPT !.attempt = f.attempt + 1, !.pc = "send"]
    ELSE [f EXCEPT !.pc = "exc", !.exc = "HTTPError"]

\* main2.py:712-714 / main.py:547-550  except HTTPError: raise
OnHTTPError(f) == [f EXCEPT !.pc = "exc", !.exc = "HTTPError"]

\* An exception that leaves the outer try of request_with_retry:
\* ConnectionError/Timeout and HTTPError are handled by its except clauses,
\* anything else (RecursionError) propagates unchanged.
OnException(f, e) ==
    CASE e = "ConnectionError" -> OnNetworkError(f)
      [] e = "HTTPError"       -> OnHTTPError(f)
      [] OTHER                 -> [f EXCEPT !.pc = "exc", !.exc = e]

InitObs ==
    [reqs |-> 0, logins |-> 0, reissues |-> 0, afterReissue |-> 0,
     afterHTTPError |-> 0, afterOk |-> 0, n401 |-> 0, nBad |-> 0,
     nNet |-> 0, nOk |-> 0, first |-> None,
     loginBad |-> FALSE, loginFromLogin |-> FALSE, reissueHdrFresh |-> TRUE]

IsBottom == Len(stack) = 1

\* Bookkeeping for one request issued by the bottom activation.
ObsRequest(f, r, isReissue) ==
    IF ~IsBottom
    THEN [obs EXCEPT !.loginBad = obs.loginBad \/ r # "200"]
    ELSE [obs EXCEPT
            !.reqs = @ + 1,
            !.reissues = IF isReissue THEN @ + 1 ELSE @,
            !.afterReissue = IF obs.reissues > 0 THEN @ + 1 ELSE @,
            !.afterHTTPError = IF obs.nBad > 0 THEN @ + 1 ELSE @,
            !.afterOk = IF obs.nOk > 0 THEN @ + 1 ELSE @,
            !.nNet = IF r = "net" THEN @ + 1 ELSE @,
            !.nOk = IF r = "200" THEN @ + 1 ELSE @,
            !.first = IF obs.reqs = 0 THEN r ELSE @,
            !.n401 = IF r = "401" THEN @ + 1 ELSE @,
            !.nBad = IF r = "500" THEN @ + 1 ELSE @,
            !.reissueHdrFresh =
                IF isReissue THEN @ /\ f.hdr = SESSION_TOKENS ELSE @]

\* main2.py:676-704 / main.py:535-539  one pass through the loop body up to
\* the point where the activation returns, raises, retries or calls login().
Send(r) ==
    /\ stack # <<>>
    /\ Top.pc = "send"
    /\ LET f == Top
           creds == CredentialsFor(f.url)
           o == ObsRequest(f, r, FALSE)
       IN CASE r = "net" ->
                 /\ stack' = ReplaceTop(OnNetworkError(f))
                 /\ obs' = o
            [] r = "200" ->
                 /\ stack' = ReplaceTop([f EXCEPT !.pc = "ret"])
                 /\ obs' = o
            [] r = "500" ->
                 /\ stack' = ReplaceTop(OnHTTPError(f))
                 /\ obs' = o
            [] r = "401" /\ variant = "main" ->
                 /\ stack' = ReplaceTop(OnHTTPError(f))
                 /\ obs' = o
            [] r = "401" /\ variant = "main2" /\ creds = None ->
                 \* main2.py:700-702
                 /\ stack' = ReplaceTop(OnHTTPError(f))
                 /\ obs' = o
            [] r = "401" /\ variant = "main2" /\ creds # None ->
                 \* main2.py:682-686  tokens = login(username, password)
                 /\ obs' = [o EXCEPT
                              !.logins = IF IsBottom THEN @ + 1 ELSE @,
                              !.loginFromLogin = @ \/ f.url = LOGIN_ENDPOINT]
                 /\ IF Len(stack) < MaxDepth
                    THEN stack' = Append(ReplaceTop([f EXCEPT !.pc = "login"]),
                                         Frame(LOGIN_ENDPOINT, None))
                    ELSE stack' = ReplaceTop(OnException(f, "RecursionError"))
    /\ UNCHANGED <<variant, SESSION_TOKENS, SESSION_CREDENTIALS>>

\* main2.py:694-699  the request after a successful re-login
Reissue(r) ==
    /\ stack # <<>>
    /\ Top.pc = "reissue"
    /\ LET f == Top
       IN /\ obs' = ObsRequest(f, r, TRUE)
          /\ CASE r = "net" -> stack' = ReplaceTop(OnException(f, "ConnectionError"))
               [] r = "200" -> stack' = ReplaceTop([f EXCEPT !.pc = "ret"])
               [] OTHER     -> stack' = ReplaceTop(OnException(f, "HTTPError"))
    /\ UNCHANGED <<variant, SESSION_TOKENS, SESSION_CREDENTIALS>>

\* main2.py:688-693  the Authorization header of the call is rewritten with
\* the new token and the request is sent once more
AfterRelogin(f, tok) == [f EXCEPT !.pc = "reissue", !.hdr = tok]

\* main2.py:23-36 login() hands the outcome of its request_with_retry call to
\* the activation that called it (main2.py:686-699): on a response, the
\* tokens are saved and the header is rewritten; an exception is re-raised
\* inside the outer try.
LoginReturns(tok) ==
    /\ Len(stack) > 1
    /\ Top.pc \in {"ret", "exc"}
    /\ LET child == Top
           rest == SubSeq(stack, 1, Len(stack) - 1)
           f == rest[Len(rest)]
       IN IF child.pc = "ret"
          THEN /\ SESSION_TOKENS' = tok
               /\ stack' = [rest EXCEPT ![Len(rest)] = AfterRelogin(f, tok)]
          ELSE /\ tok = "T1"
               /\ UNCHANGED SESSION_TOKENS
               /\ stack' = [rest EXCEPT ![Len(rest)] = OnException(f, child.exc)]
    /\ UNCHANGED <<variant, SESSION_CREDENTIALS, obs>>

TransportIdle ==
    /\ stack = <<>>
    /\ SESSION_TOKENS = "T0"
    /\ SESSION_CREDENTIALS = None
    /\ obs = InitObs

EnrichIdle ==
    /\ manga_ids = <<>>
    /\ status_map = <<>>
    /\ epc = "idle"
    /\ user_language = <<>>
    /\ bidx = 0
    /\ data = <<>>
    /\ read_status_map = <<>>
    /\ ratings_map = <<>>
    /\ futures = <<>>
    /\ cidx = 0
    /\ all_info = <<>>
    /\ returned = Nothing
    /\ caller = "idle"
    /\ sinkInput = Nothing
    /\ eobs = [failed |-> {}, feedFailed |-> {}, readFailed |-> {},
               ratingFailed |-> {}, submitted |-> <<>>]

SyncIdle ==
    /\ mangas = <<>>
    /\ spc = "idle"
    /\ manga_with_al_id = <<>>
    /\ manga_without_al_id = <<>>
    /\ sidx = 0
    /\ mutations = <<>>
    /\ csvOut = Nothing
    /\ sobs = [failed |-> {}, soft |-> {}, slept |-> 0, auth |-> FALSE,
               sent |-> <<>>]

PartitionIdle ==
    /\ manga_info = <<>>
    /\ ppc = "idle"
    /\ pidx = 0
    /\ manga_with_alid = <<>>
    /\ manga_with_malid = <<>>
    /\ manga_unlinked = <<>>
    /\ dispatched = <<>>

XmlIdle ==
    /\ manga_info_list = <<>>
    /\ xpc = "idle"
    /\ xidx = 0
    /\ exported = 0
    /\ not_found = 0
    /\ totals = [l \in {} |-> 0]
    /\ entries = <<>>
    /\ unlinked = <<>>
    /\ xmlFile = Nothing
    /\ answer = ""
    /\ byMalCsv = Nothing

FilesIdle ==
    /\ exportDir = FALSE
    /\ fileset = {}
    /\ choices = {}
    /\ fstep = "idle"
    /\ fwrites = {}

ThreadsIdle ==
    /\ session_headers = "T0"
    /\ thr = <<>>
    /\ hobs = [done |-> {}, issued |-> {}, sentAfter |-> {}]

CsvIdle ==
    /\ csv_items = <<>>
    /\ cpc = "idle"
    /\ crow = 0
    /\ csvfile = Nothing
    /\ csvruns = 0
    /\ csvfirst = Nothing

MenuIdle ==
    /\ mpc = "idle"
    /\ menu_choices = <<>>
    /\ tokens = None
    /\ username = None
    /\ mround = 0
    /\ mlog = {}
    /\ loggedOut = FALSE

InitTransport ==
    /\ EnrichIdle
    /\ SyncIdle
    /\ PartitionIdle
    /\ XmlIdle
    /\ FilesIdle
    /\ ThreadsIdle
    /\ CsvIdle
    /\ MenuIdle
    /\ variant \in {"main", "main2"}
    /\ \E u \in Urls : stack = <<Frame(u, InitialHeader(u))>>
    /\ SESSION_TOKENS = "T0"
    /\ SESSION_CREDENTIALS \in {None, "creds"}
    /\ variant = "main" => SESSION_CREDENTIALS = None
    /\ obs = InitObs

NextTransport ==
    \/ \E r \in Responses : Send(r) /\ UNCHANGED notTransport
    \/ \E r \in Responses : Reissue(r) /\ UNCHANGED notTransport
    \/ \E tok \in Tokens : LoginReturns(tok) /\ UNCHANGED notTransport

SpecTransport == InitTransport /\ [][NextTransport]_vars

(***************************************************************************)
(* Transport properties                                                    *)
(***************************************************************************)

Bottom == stack[1]

Finished == Len(stack) = 1 /\ Bottom.pc \in {"ret", "exc"}

Reauthenticating ==
    /\ variant = "main2"
    /\ Bottom.url # LOGIN_ENDPOINT
    /\ SESSION_CREDENTIALS # None

\* C1: a non-login call that got 401 with stored credentials logs in exactly
\* once, reissues the call exactly once with the refreshed header, and issues
\* no further request or login for that call whatever the reissue's outcome.
C1_ReauthOnceThenNoFurtherRequest ==
    Reauthenticating =>
        /\ obs.logins <= 1
        /\ obs.reissues <= 1
        /\ obs.afterReissue = 0
        /\ obs.reissueHdrFresh

\* C2: a 401 answer to a call to the login endpoint never makes the transport
\* call login(), and the 401 reaches the caller as an HTTP failure.
C2_NoReauthForLoginCall ==
    /\ ~obs.loginFromLogin
    /\ (Finished /\ Bottom.url = LOGIN_ENDPOINT /\ obs.n401 > 0)
          => (Bottom.pc = "exc" /\ Bottom.exc = "HTTPError" /\ obs.reqs = 1)

\* C3 (as stated): the call is sent at most 6 times in total, a network
\* failure reaches the caller only when the 6th attempt failed, and nothing
\* is sent after a successful response.
C3_AtMostSixRequests ==
    /\ obs.reqs <= max_retries
    /\ (Finished /\ Bottom.exc = "ConnectionError")
          => Bottom.attempt = max_retries - 1
    /\ obs.afterOk = 0

\* C3 (amended): the loop makes at most 6 attempts; an attempt sends the
\* request once, and once more when it re-authenticated after a 401 (main2),
\* so at most 12 requests in main2 and at most 6 in main; a network failure
\* reaches the caller only when the 6th attempt failed with it, every earlier
\* network failure being followed by another attempt; nothing is sent after
\* a successful response.
C3_AtMostSixAttempts ==
    /\ \A i \in DOMAIN stack : stack[i].attempt <= max_retries - 1
    /\ obs.reissues <= obs.logins
    /\ obs.logins <= Bottom.attempt + 1
    /\ obs.reqs <= Bottom.attempt + 1 + obs.reissues
    /\ obs.reqs <= 2 * max_retries
    /\ variant = "main" => obs.reqs <= max_retries
    /\ (Finished /\ Bottom.exc = "ConnectionError")
          => Bottom.attempt = max_retries - 1
    /\ obs.nNet <= Bottom.attempt
                    + (IF Finished /\ Bottom.exc = "ConnectionError" THEN 1 ELSE 0)
    /\ obs.afterOk = 0
    /\ obs.nOk > 0 => (Finished /\ Bottom.pc = "ret" /\ obs.nOk = 1)

\* C3 witness: the sixth attempt failed at the network level after more than
\* six requests had been sent for the call.
C3_Witness ==
    /\ Finished
    /\ Bottom.exc = "ConnectionError"
    /\ obs.reqs = 2 * max_retries

\* C4: after an unsuccessful status other than 401 the call sends nothing
\* more, calls no login, and has raised HTTPError to its caller.
C4_HTTPErrorNotRetried ==
    obs.nBad > 0 =>
        /\ Finished
        /\ Bottom.pc = "exc"
        /\ Bottom.exc = "HTTPError"
        /\ obs.nBad = 1
        /\ obs.afterHTTPError = 0

\* C4 witness: the reissued request of a re-authenticated call got a 500 and
\* the call has raised.
C4_Witness ==
    /\ Finished
    /\ obs.nBad = 1
    /\ obs.reissues = 1
    /\ Bottom.exc = "HTTPError"

\* The remote answered the call with 401 once and with 200 afterwards, and
\* answered the login call with 200.
Remote401Then200 ==
    /\ obs.first = "401"
    /\ obs.n401 = 1
    /\ obs.nBad = 0
    /\ obs.nNet = 0
    /\ ~obs.loginBad

\* C5: with stored credentials and a remote that answers a non-login call
\* with 401 once and 200 afterwards, the finished call has returned the 200
\* response after exactly one login call and one reissue, without an error.
C5_ReauthReturns200 ==
    (Reauthenticating /\ Remote401Then200 /\ Finished) =>
        /\ Bottom.pc = "ret"
        /\ Bottom.exc = None
        /\ obs.logins = 1
        /\ obs.reqs = 2
        /\ obs.nOk = 1
        /\ Bottom.hdr = SESSION_TOKENS

\* C5 witness: such a call has finished.
C5_Witness ==
    /\ Reauthenticating
    /\ Remote401Then200
    /\ Finished
    /\ Bottom.pc = "ret"
    /\ SESSION_TOKENS \in Tokens

\* C26: the MangaDex session token goes to MangaDex URLs only: a call to
\* the AniList URL keeps its AniList token on every request, the one sent
\* after a 401 included, and a 401 from AniList makes no call of login().
C26_SourceTokenStaysWithSource ==
    \A i \in DOMAIN stack :
        stack[i].url = ANILIST_ENDPOINT =>
            /\ stack[i].pc # "login"
            /\ stack[i].hdr = "AL"
            /\ i = 1 => (obs.logins = 0 /\ obs.reissues = 0)

\* C27: a call of request_with_retry ends within bounds of its own, whatever
\* the remote answers: it returns or raises after at most max_retries
\* attempts with at most one login each, a login call logs in no further,
\* and no call ends because the interpreter ran out of stack.
C27_EndsWithinItsOwnBounds ==
    /\ \A i \in DOMAIN stack : stack[i].exc # "RecursionError"
    /\ \A i \in DOMAIN stack : stack[i].url = LOGIN_ENDPOINT => stack[i].pc # "login"
    /\ obs.logins <= max_retries

(***************************************************************************)
(* Enrichment: get_manga_info (main2.py:103-233) and its caller            *)
(***************************************************************************)

\* Largest library in the model.
MaxIds == 3

\* main2.py:115  batch_size = 100, scaled down so that a library of MaxIds
\* items spans more than one batch.
batch_size == 2

\* main2.py:183  ThreadPoolExecutor(max_workers=5), scaled down with
\* batch_size so that a batch can submit more work than the pool has threads.
max_workers == 1

Min(a, b) == IF a < b THEN a ELSE b

Range(q) == {q[i] : i \in DOMAIN q}

\* A Python dict: a function whose domain is the set of keys present.
SetKey(m, k, v) == [x \in DOMAIN m \cup {k} |-> IF x = k THEN v ELSE m[x]]

EmptyMap == <<>>

\* The statuses the library endpoint reports.
LibraryStatuses ==
    <<"reading", "completed", "on_hold", "dropped", "plan_to_read", "re_reading">>

\* The library of the model: item i carries the i-th status (cyclically), so
\* that neighbouring items differ in status.
StatusOfId(i) == LibraryStatuses[((i - 1) % Len(LibraryStatuses)) + 1]

\* main2.py:116  batches = [manga_ids[i:i+batch_size] for i in range(0, len(manga_ids), batch_size)]
NumBatches == (Len(manga_ids) + batch_size - 1) \div batch_size

Batch(k) ==
    IF k < 1 \/ k > NumBatches
    THEN <<>>
    ELSE SubSeq(manga_ids, (k - 1) * batch_size + 1,
                Min(k * batch_size, Len(manga_ids)))

\* main2.py:150  the loop over batches: the next batch, or the return
AfterBatch(k) == IF k + 1 <= NumBatches THEN "meta" ELSE "return"

\* What GET /manga can answer for a batch: the metadata of any of the
\* requested ids, in request order (an id the service no longer serves is
\* left out of "data").
SubSeqs(q) ==
    {SelectSeq(q, LAMBDA x : x \in S) : S \in SUBSET Range(q)}

MetaResponses(batch) == {[i \in DOMAIN r |-> [id |-> r[i]]] : r \in SubSeqs(batch)}

\* The chapters a feed can contain: [id, attributes.chapter, attributes.volume]
ChapterA == [id |-> "c1", chapter |-> "1", volume |-> "2"]
ChapterB == [id |-> "c2", chapter |-> "2", volume |-> "1"]
ChapterC == [id |-> "c3", chapter |-> "None", volume |-> "x"]

\* The feeds of an item as the service holds them, in the order of the query
\* (main2.py:135-136).
Feeds == {<<>>, <<ChapterA>>, <<ChapterA, ChapterB>>, <<ChapterC, ChapterB, ChapterA>>}

\* main2.py:133-134  'limit': 300 with 'offset': 0, scaled: the longest feed
\* does not fit in one page
feed_limit == 2

\* main2.py:131-141  the one GET of fetch_chapter_list: the first page of the
\* feed; no further page is asked for
Page(feed) == SubSeq(feed, 1, Min(feed_limit, Len(feed)))

\* The read-chapter id lists GET /manga/read can report for an item.
ReadSets == {{}, {"c1"}, {"c1", "c2"}, {"c2", "c3"}}

ReadMaps(batch) == UNION {[S -> ReadSets] : S \in SUBSET Range(batch)}

Ratings == {7}

RatingMaps(batch) == UNION {[S -> Ratings] : S \in SUBSET Range(batch)}

\* float() of a chapter/volume attribute: a number for numeric text; None,
\* empty or non-numeric text ends in the 0 of the except / `or 0` branch.
ParseNum(v) ==
    CASE v = "1" -> 1
      [] v = "2" -> 2
      [] OTHER   -> 0

\* main2.py:204-208
parse_chapter_num(ch) == ParseNum(ch.chapter)

\* main2.py:209-214
parse_volume_num(ch) == ParseNum(ch.volume)

Max(a, b) == IF a >= b THEN a ELSE b

\* main2.py:216  max(chapters, key=parse_chapter_num): the first element
\* with the largest key
MaxChapterOf(q) ==
    q[CHOOSE i \in DOMAIN q :
        /\ \A j \in DOMAIN q : parse_chapter_num(q[j]) <= parse_chapter_num(q[i])
        /\ \A j \in 1..(i - 1) : parse_chapter_num(q[j]) < parse_chapter_num(q[i])]

MaxVolumeOfMaxChapter(q) == MaxChapterOf(q)

\* main2.py:217  max(chapters, key=parse_volume_num)
MaxVolumeOf(q) ==
    q[CHOOSE i \in DOMAIN q :
        /\ \A j \in DOMAIN q : parse_volume_num(q[j]) <= parse_volume_num(q[i])
        /\ \A j \in 1..(i - 1) : parse_volume_num(q[j]) < parse_volume_num(q[i])]

\* main2.py:141-149  fetch_chapter_list: the kept chapters, or [] on failure
fetch_chapter_list(ok, feed, read_chapter_ids) ==
    IF ok THEN SelectSeq(Page(feed), LAMBDA c : c.id \in read_chapter_ids) ELSE <<>>

\* main2.py:215-222  the progress pair of a kept chapter list
Progress(chapters) ==
    IF chapters # <<>>
    THEN [read_chapter |-> Max(parse_chapter_num(MaxChapterOf(chapters)), 0),
          read_volume  |-> Max(parse_volume_num(MaxVolumeOf(chapters)), 0)]
    ELSE [read_chapter |-> 0, read_volume |-> 0]

\* main2.py:224-229
RatingOf(id) == IF id \in DOMAIN ratings_map THEN ratings_map[id] ELSE 0

\* main2.py:188  set(read_status_map.get(manga_id, []))
ReadIdsIn(rmap, id) == IF id \in DOMAIN rmap THEN rmap[id] ELSE {}

\* main2.py:185-195  the part of the submit loop that writes into the dict
Prepared(m, rmap) ==
    LET a == IF m.id \in DOMAIN status_map
             THEN SetKey(m, "reading_status", status_map[m.id])
             ELSE m
    IN IF ReadIdsIn(rmap, m.id) = {}
       THEN SetKey(SetKey(a, "read_chapter", 0), "read_volume", 0)
       ELSE a

SubmittedAll(d, rmap) ==
    [j \in DOMAIN d |->
          [idx |-> j, state |-> "queued", feed |-> <<>>, chapters |-> <<>>]]

\* main2.py:196-197  the futures submitted for the batch, in submit order
Submitted(d, rmap) ==
    LET idxs == SelectSeq([i \in DOMAIN d |-> i],
                          LAMBDA i : ReadIdsIn(rmap, d[i].id) # {})
    IN [j \in DOMAIN idxs |->
          [idx |-> idxs[j], state |-> "queued", feed |-> <<>>, chapters |-> <<>>]]

OnMetadataFailureReturnsPartial(info) == [epc |-> "done", returned |-> Some(info)]

\* main2.py:157-158  the metadata call is outside any try: its exception
\* leaves get_manga_info, and all_info is dropped with the frame
OnMetadataFailure(info) == [epc |-> "raised", returned |-> Nothing]

ReadMapOnFailureStale(rmap) == rmap

\* main2.py:169-171
ReadMapOnFailure(rmap) == EmptyMap

\* main2.py:107-114
Preferences(ok) ==
    /\ epc = "prefs"
    /\ user_language' = IF ok THEN <<"ja">> ELSE <<"en">>
    /\ eobs' = IF ok THEN eobs ELSE [eobs EXCEPT !.failed = @ \cup {"prefs"}]
    /\ bidx' = 1
    /\ epc' = AfterBatch(0)
    /\ UNCHANGED <<manga_ids, status_map, data, read_status_map, ratings_map,
                   futures, cidx, all_info, returned, caller, sinkInput>>

\* main2.py:151-159
Metadata(ok, resp) ==
    /\ epc = "meta"
    /\ IF ok
       THEN /\ resp \in MetaResponses(Batch(bidx))
            /\ data' = resp
            /\ epc' = "read"
            /\ UNCHANGED <<returned, eobs>>
       ELSE /\ resp = <<>>
            /\ epc' = OnMetadataFailure(all_info).epc
            /\ returned' = OnMetadataFailure(all_info).returned
            /\ eobs' = [eobs EXCEPT !.failed = @ \cup {"meta"}]
            /\ UNCHANGED data
    /\ UNCHANGED <<manga_ids, status_map, user_language, bidx, read_status_map,
                   ratings_map, futures, cidx, all_info, caller, sinkInput>>

\* main2.py:160-171
ReadStatus(ok, rmap) ==
    /\ epc = "read"
    /\ IF ok
       THEN /\ rmap \in ReadMaps(Batch(bidx))
            /\ read_status_map' = rmap
            /\ UNCHANGED eobs
       ELSE /\ rmap = EmptyMap
            /\ read_status_map' = ReadMapOnFailure(read_status_map)
            /\ eobs' = [eobs EXCEPT !.failed = @ \cup {"read"},
                                    !.readFailed = @ \cup Range(Batch(bidx))]
    /\ epc' = "rating"
    /\ UNCHANGED <<manga_ids, status_map, user_language, bidx, data, ratings_map,
                   futures, cidx, all_info, returned, caller, sinkInput>>

\* main2.py:172-201  the rating call, then the submit loop
RatingsAndSubmit(ok, rmap) ==
    /\ epc = "rating"
    /\ IF ok
       THEN /\ rmap \in RatingMaps(Batch(bidx))
            /\ ratings_map' = rmap
       ELSE /\ rmap = EmptyMap
            /\ ratings_map' = EmptyMap
    /\ data' = [i \in DOMAIN data |-> Prepared(data[i], read_status_map)]
    /\ futures' = Submitted(data, read_status_map)
    /\ eobs' = [eobs EXCEPT
                  !.failed = IF ok THEN @ ELSE @ \cup {"rating"},
                  !.ratingFailed = IF ok THEN @ ELSE @ \cup Range(Batch(bidx)),
                  !.submitted = @ \o [j \in DOMAIN futures' |->
                                        data[futures'[j].idx].id]]
    /\ cidx' = 1
    /\ epc' = "collect"
    /\ UNCHANGED <<manga_ids, status_map, user_language, bidx, read_status_map,
                   all_info, returned, caller, sinkInput>>

Running == {j \in DOMAIN futures : futures[j].state = "running"}

PoolAlwaysHasFreeThread == TRUE

\* main2.py:183  the executor runs a work item only on one of its
\* max_workers threads
PoolHasFreeThread == Cardinality(Running) < max_workers

\* A pool thread takes the oldest queued work item (main2.py:183, 197).
WorkerStart(j) ==
    /\ epc = "collect"
    /\ j \in DOMAIN futures
    /\ futures[j].state = "queued"
    /\ \A k \in 1..(j - 1) : futures[k].state # "queued"
    /\ PoolHasFreeThread
    /\ futures' = [futures EXCEPT ![j].state = "running"]
    /\ UNCHANGED <<manga_ids, status_map, epc, user_language, bidx, data,
                   read_status_map, ratings_map, cidx, all_info, returned,
                   caller, sinkInput, eobs>>

\* main2.py:130-149  fetch_chapter_list in a pool thread
WorkerFinish(j, ok, feed) ==
    /\ epc = "collect"
    /\ j \in DOMAIN futures
    /\ futures[j].state = "running"
    /\ feed \in Feeds
    /\ ~ok => feed = <<>>
    /\ LET id == data[futures[j].idx].id
       IN /\ futures' = [futures EXCEPT
                           ![j].state = "done",
                           ![j].feed = feed,
                           ![j].chapters =
                               fetch_chapter_list(ok, feed, ReadIdsIn(read_status_map, id))]
          /\ eobs' = IF ok THEN eobs
                     ELSE [eobs EXCEPT !.failed = @ \cup {"feed"},
                                       !.feedFailed = @ \cup {id}]
    /\ UNCHANGED <<manga_ids, status_map, epc, user_language, bidx, data,
                   read_status_map, ratings_map, cidx, all_info, returned,
                   caller, sinkInput>>

\* main2.py:202-231  one pass of the loop over the futures
Collect ==
    /\ epc = "collect"
    /\ cidx <= Len(futures)
    /\ futures[cidx].state = "done"
    /\ LET i == futures[cidx].idx
           p == Progress(futures[cidx].chapters)
           m == data[i]
       IN data' = [data EXCEPT ![i] =
                     SetKey(SetKey(SetKey(m, "read_chapter", p.read_chapter),
                                   "read_volume", p.read_volume),
                            "user_rating", RatingOf(m.id))]
    /\ cidx' = cidx + 1
    /\ UNCHANGED <<manga_ids, status_map, epc, user_language, bidx,
                   read_status_map, ratings_map, futures, all_info, returned,
                   caller, sinkInput, eobs>>

\* main2.py:232  all_info.extend(data), then the next batch
Extend ==
    /\ epc = "collect"
    /\ cidx > Len(futures)
    /\ all_info' = all_info \o data
    /\ epc' = AfterBatch(bidx)
    /\ bidx' = bidx + 1
    /\ UNCHANGED <<manga_ids, status_map, user_language, data, read_status_map,
                   ratings_map, futures, cidx, returned, caller, sinkInput, eobs>>

\* main2.py:233  return all_info
Return ==
    /\ epc = "return"
    /\ returned' = Some(all_info)
    /\ epc' = "done"
    /\ UNCHANGED <<manga_ids, status_map, user_language, bidx, data,
                   read_status_map, ratings_map, futures, cidx, all_info,
                   caller, sinkInput, eobs>>

\* main2.py:772-776  main() hands the returned list to the selected sinks
RunSinks ==
    /\ caller = "waiting"
    /\ epc = "done"
    /\ sinkInput' = returned
    /\ caller' = "sinks"
    /\ UNCHANGED <<manga_ids, status_map, epc, user_language, bidx, data,
                   read_status_map, ratings_map, futures, cidx, all_info,
                   returned, eobs>>

\* main2.py:235-239, 772  the exception passes through
\* fetch_and_prepare_manga_info and main(), neither of which catches it
Uncaught ==
    /\ caller = "waiting"
    /\ epc = "raised"
    /\ caller' = "terminated"
    /\ UNCHANGED <<manga_ids, status_map, epc, user_language, bidx, data,
                   read_status_map, ratings_map, futures, cidx, all_info,
                   returned, sinkInput, eobs>>

InitEnrich ==
    /\ TransportIdle
    /\ SyncIdle
    /\ PartitionIdle
    /\ XmlIdle
    /\ FilesIdle
    /\ ThreadsIdle
    /\ CsvIdle
    /\ MenuIdle
    /\ variant = "main2"
    /\ \E n \in 0..MaxIds :
          /\ manga_ids = [i \in 1..n |-> i]
          /\ status_map = [i \in 1..n |-> StatusOfId(i)]
    /\ epc = "prefs"
    /\ user_language = <<>>
    /\ bidx = 0
    /\ data = <<>>
    /\ read_status_map = EmptyMap
    /\ ratings_map = EmptyMap
    /\ futures = <<>>
    /\ cidx = 0
    /\ all_info = <<>>
    /\ returned = Nothing
    /\ caller = "waiting"
    /\ sinkInput = Nothing
    /\ eobs = [failed |-> {}, feedFailed |-> {}, readFailed |-> {},
               ratingFailed |-> {}, submitted |-> <<>>]

NextEnrich ==
    \/ \E ok \in BOOLEAN : Preferences(ok) /\ UNCHANGED notEnrich
    \/ \E ok \in BOOLEAN, resp \in MetaResponses(Batch(bidx)) \cup {<<>>} :
          Metadata(ok, resp) /\ UNCHANGED notEnrich
    \/ \E ok \in BOOLEAN, rmap \in ReadMaps(Batch(bidx)) :
          ReadStatus(ok, rmap) /\ UNCHANGED notEnrich
    \/ \E ok \in BOOLEAN, rmap \in RatingMaps(Batch(bidx)) :
          RatingsAndSubmit(ok, rmap) /\ UNCHANGED notEnrich
    \/ \E j \in DOMAIN futures : WorkerStart(j) /\ UNCHANGED notEnrich
    \/ \E j \in DOMAIN futures, ok \in BOOLEAN, feed \in Feeds :
          WorkerFinish(j, ok, feed) /\ UNCHANGED notEnrich
    \/ Collect /\ UNCHANGED notEnrich
    \/ Extend /\ UNCHANGED notEnrich
    \/ Return /\ UNCHANGED notEnrich
    \/ RunSinks /\ UNCHANGED notEnrich
    \/ Uncaught /\ UNCHANGED notEnrich

SpecEnrich == InitEnrich /\ [][NextEnrich]_vars

(***************************************************************************)
(* Enrichment properties                                                   *)
(***************************************************************************)

CountId(q, id) == Cardinality({i \in DOMAIN q : q[i].id = id})

\* C6: a completed run of get_manga_info returns exactly one item per input
\* id, whatever the metadata endpoint answered.
C6_ExactlyOneItemPerInputId ==
    epc = "done" =>
        /\ returned # Nothing
        /\ Len(returned[1]) = Len(manga_ids)
        /\ \A id \in Range(manga_ids) : CountId(returned[1], id) = 1

\* C7: once the metadata call of any batch has failed, get_manga_info has
\* raised, nothing was returned to the caller, and no sink is run; a sink only
\* ever runs on the list of a run that went through every batch.
C7_MetadataFailureAbortsRun ==
    /\ "meta" \in eobs.failed =>
          /\ epc = "raised"
          /\ returned = Nothing
          /\ sinkInput = Nothing
          /\ caller \in {"waiting", "terminated"}
    /\ caller = "sinks" =>
          /\ "meta" \notin eobs.failed
          /\ bidx = NumBatches + 1
          /\ sinkInput = Some(all_info)

\* C7 witness: the metadata call of the second batch failed after the first
\* batch had been merged, and the exception has left main().
C7_Witness ==
    /\ "meta" \in eobs.failed
    /\ bidx = 2
    /\ all_info # <<>>
    /\ caller = "terminated"
    /\ returned = Nothing

ZeroProgress(m) ==
    /\ "read_chapter" \in DOMAIN m
    /\ "read_volume" \in DOMAIN m
    /\ m.read_chapter = 0
    /\ m.read_volume = 0

\* C8: no failure of an auxiliary call aborts the run (only a metadata
\* failure raises, and the orchestrator can always take its next step); a
\* failed preferences call leaves ['en'], a failed read call leaves an empty
\* read map, submits nothing and gives the batch's items progress (0,0), a
\* failed rating call leaves an empty rating map, and a failed chapter feed
\* gives its item progress (0,0).
C8_AuxiliaryFailuresDegrade ==
    /\ epc = "raised" => "meta" \in eobs.failed
    /\ (caller = "waiting" /\ epc # "raised") => ENABLED NextEnrich
    /\ ("prefs" \in eobs.failed /\ epc # "prefs") => user_language = <<"en">>
    /\ (epc \in {"rating", "collect"} /\ Range(Batch(bidx)) \subseteq eobs.readFailed)
          => read_status_map = EmptyMap
    /\ (epc = "collect" /\ Range(Batch(bidx)) \subseteq eobs.ratingFailed)
          => ratings_map = EmptyMap
    /\ \A i \in DOMAIN eobs.submitted : eobs.submitted[i] \notin eobs.readFailed
    /\ \A i \in DOMAIN all_info :
          all_info[i].id \in (eobs.readFailed \cup eobs.feedFailed)
             => ZeroProgress(all_info[i])
    /\ caller = "sinks" => (bidx = NumBatches + 1 /\ sinkInput = Some(all_info))

\* C8 witness: every kind of auxiliary call failed at least once in a run
\* that still delivered the items of all its batches to the sinks.
C8_Witness ==
    /\ caller = "sinks"
    /\ {"prefs", "read", "rating", "feed"} \subseteq eobs.failed
    /\ Len(sinkInput[1]) = Len(manga_ids)
    /\ Len(manga_ids) > batch_size
    /\ \E i \in DOMAIN sinkInput[1] :
          sinkInput[1][i].id \in eobs.feedFailed /\ ZeroProgress(sinkInput[1][i])

BatchCollected == epc = "collect" /\ cidx > Len(futures)

\* C13: every item get_manga_info merges into its result carries a rating:
\* the entry of its batch's rating map, or 0 when the map has none, whether
\* or not the item has read history.
C13_EveryItemCarriesItsRating ==
    /\ BatchCollected =>
          \A i \in DOMAIN data :
              /\ "user_rating" \in DOMAIN data[i]
              /\ data[i].user_rating = RatingOf(data[i].id)
    /\ \A i \in DOMAIN all_info : "user_rating" \in DOMAIN all_info[i]

FetchedOk(j) ==
    /\ futures[j].state = "done"
    /\ data[futures[j].idx].id \notin eobs.feedFailed

ReadChaptersOfFeed(j) ==
    SelectSeq(futures[j].feed,
              LAMBDA c : c.id \in ReadIdsIn(read_status_map, data[futures[j].idx].id))

\* C14: a successful per-item fetch keeps every chapter of the item's feed
\* whose id is in the read set, whatever the length of the feed, so the
\* furthest-read chapter is the largest chapter number among all the read
\* chapters of the feed.
C14_FetchCoversWholeFeed ==
    \A j \in DOMAIN futures :
        (epc = "collect" /\ FetchedOk(j)) =>
            /\ futures[j].chapters = ReadChaptersOfFeed(j)
            /\ j < cidx =>
                  \A k \in DOMAIN ReadChaptersOfFeed(j) :
                      parse_chapter_num(ReadChaptersOfFeed(j)[k])
                          <= data[futures[j].idx].read_chapter

CollectedWithChapters ==
    {j \in DOMAIN futures :
        epc = "collect" /\ j < cidx /\ futures[j].chapters # <<>>}

\* C15: for every non-empty kept chapter list the recorded furthest-read
\* chapter is the largest parsed chapter number of the list and the recorded
\* furthest-read volume is, independently, the largest parsed volume number
\* of the list (absent or unparsable numbers counting as 0); neither is
\* negative.
C15_ProgressIsIndependentMaxima ==
    \A j \in CollectedWithChapters :
        LET m  == data[futures[j].idx]
            ch == futures[j].chapters
        IN /\ m.read_chapter >= 0
           /\ m.read_volume >= 0
           /\ \A k \in DOMAIN ch : parse_chapter_num(ch[k]) <= m.read_chapter
           /\ \E k \in DOMAIN ch : parse_chapter_num(ch[k]) = m.read_chapter
           /\ \A k \in DOMAIN ch : parse_volume_num(ch[k]) <= m.read_volume
           /\ \E k \in DOMAIN ch : parse_volume_num(ch[k]) = m.read_volume

\* C15 witness: an item was collected whose largest chapter number and
\* largest volume number come from different chapters of its kept list.
C15_Witness ==
    \E j \in CollectedWithChapters :
        /\ futures[j].chapters = <<ChapterA, ChapterB>>
        /\ data[futures[j].idx].read_chapter = 2
        /\ data[futures[j].idx].read_volume = 2

\* The futures the submit loop created for item i of the batch
FuturesOf(i) == {j \in DOMAIN futures : futures[j].idx = i}

\* How often the id was handed to the pool during the run
TimesSubmitted(id) ==
    Cardinality({k \in DOMAIN eobs.submitted : eobs.submitted[k] = id})

\* C25: an item whose entry in the batch read map is absent or empty is
\* never submitted to the pool, so no chapter-feed request is made for it,
\* and it has progress (0,0); an item with a non-empty read set is
\* submitted exactly once.
C25_OnlyItemsWithReadChaptersAreSubmitted ==
    epc = "collect" =>
        \A i \in DOMAIN data :
            IF ReadIdsIn(read_status_map, data[i].id) = {}
            THEN /\ FuturesOf(i) = {}
                 /\ TimesSubmitted(data[i].id) = 0
                 /\ data[i].id \notin eobs.feedFailed
                 /\ ZeroProgress(data[i])
            ELSE /\ Cardinality(FuturesOf(i)) = 1
                 /\ TimesSubmitted(data[i].id) = 1

\* C25 witness: a batch with an item without read chapters and an item
\* with read chapters, after the pool has answered and the loop has merged.
C25_Witness ==
    /\ epc = "collect"
    /\ cidx > Len(futures)
    /\ Len(futures) = 1
    /\ \E i \in DOMAIN data : ReadIdsIn(read_status_map, data[i].id) = {}
    /\ \E i \in DOMAIN data : ReadIdsIn(read_status_map, data[i].id) # {}

\* C23: never more than max_workers chapter-list fetches are in flight, and
\* while get_manga_info issues the requests of a batch that come before its
\* chapter fetches (metadata, read map, rating map), every chapter-list
\* fetch of the batch before has returned and has been merged; the chapter
\* fetches of a batch start only after those three requests.
C23_PoolIsBoundedAndBatchesDoNotOverlap ==
    /\ Cardinality(Running) <= max_workers
    /\ epc # "collect" =>
          \A j \in DOMAIN futures : futures[j].state = "done" /\ j < cidx

\* C23 witness: the requests of the second batch are being issued after a
\* first batch that handed more fetches to the pool than it has threads.
C23_Witness ==
    /\ epc = "read"
    /\ bidx = 2
    /\ Len(futures) > max_workers

\* C16: a fatal error during a top-level menu action aborts only that
\* action: the program is still in its menu loop afterwards.
C16_FatalErrorReturnsToMenu == caller # "terminated"

(***************************************************************************)
(* Items as the sinks see them: the `links` attribute                      *)
(***************************************************************************)

\* Longest list handed to a sink or to the split.
MaxItems == 3

\* attributes['links'] is a dict that may hold 'al' (AniList id) and 'mal'
\* (MyAnimeList id), or is not a dict at all (null).  An absent key and an
\* empty value are both falsy in the tests `if al_id:` and are written "".
LinkKinds ==
    {[dict |-> FALSE, al |-> "", mal |-> ""]}
        \cup {[dict |-> TRUE, al |-> a, mal |-> b] : a \in {"", "30"}, b \in {"", "20"}}

\* The lists of n items; an item's id is its position in the list.
ItemLists(n) ==
    {[i \in 1..n |-> [id |-> i, links |-> L[i]]] : L \in [1..n -> LinkKinds]}

AllItemLists == UNION {ItemLists(n) : n \in 0..MaxItems}

\* Python truthiness of an id value
Truthy(x) == x # ""

al_id_of_any_link(m) ==
    IF ~m.links.dict THEN ""
    ELSE IF m.links.al # "" THEN m.links.al ELSE m.links.mal

\* links.get('al') if isinstance(links, dict) else None
al_id_of(m) == IF m.links.dict THEN m.links.al ELSE ""

\* links.get('mal') if isinstance(links, dict) else None
mal_id_of(m) == IF m.links.dict THEN m.links.mal ELSE ""

IdsOf(q) == [i \in DOMAIN q |-> q[i].id]

\* The values manga["reading_status"] can hold: the six statuses of the
\* library endpoint and one value the tables do not know.
ReadingStatuses ==
    <<"reading", "completed", "on_hold", "dropped", "plan_to_read",
      "re_reading", "paused">>

\* An item with its reading status: none for k = 0
WithStatus(m, k) ==
    IF k = 0 THEN m ELSE SetKey(m, "reading_status", ReadingStatuses[k])

(***************************************************************************)
(* Remote import sink: sync_to_anilist (main2.py:458-559) and              *)
(* sync_unlisted_to_anilist (main.py:362-419)                              *)
(***************************************************************************)

\* What one mutation call through request_with_retry can end in: a 200
\* answer, a 200 answer whose body reports GraphQL errors, or an exception
\* (HTTPError for a 4xx/5xx status, ConnectionError after the retries).
MutationOutcomes == {"ok", "errors", "raise"}

\* main2.py:556 / main.py:416  the file for the items without AniList id
UnlinkedFile == IF variant = "main2" THEN "export/unlinked.csv"
                ELSE "export/unlisted_by_MAL_&_AL.csv"

\* main2.py:559 / main.py:419  the file when no item has an AniList id
NoneLinkedFile == IF variant = "main2" THEN "export/unlinked.csv"
                  ELSE "export/unlisted_by_MAL.csv"

\* main2.py:465-475 / main.py:369-379
SyncSplit ==
    /\ spc = "split"
    /\ manga_with_al_id' = SelectSeq(mangas, LAMBDA m : Truthy(al_id_of(m)))
    /\ manga_without_al_id' = SelectSeq(mangas, LAMBDA m : ~Truthy(al_id_of(m)))
    /\ spc' = IF manga_with_al_id' # <<>> THEN "auth" ELSE "csv_all"
    /\ UNCHANGED <<mangas, sidx, mutations, csvOut, sobs>>

\* main2.py:476 / main.py:380  access_token = anilist_authorization_code_flow()
SyncAuthorize(ok) ==
    /\ spc = "auth"
    /\ spc' = IF ok THEN "call" ELSE "raised"
    /\ sidx' = 1
    /\ sobs' = [sobs EXCEPT !.auth = ok]
    /\ UNCHANGED <<mangas, manga_with_al_id, manga_without_al_id, mutations, csvOut>>

\* main2.py:545-550 / main.py:403-408: the call sits in no try block, an
\* exception of request_with_retry leaves the function
AfterMutationNoSleep(outcome) == IF outcome = "raise" THEN "raised" ELSE "call"

AfterMutation(outcome) == IF outcome = "raise" THEN "raised" ELSE "sleep"

\* int(al_id) for the ids the items carry
int_of(t) == CASE t = "30" -> 30 [] t = "20" -> 20 [] OTHER -> 0

\* int(float(t)) for the text get_manga_info stores in read_chapter and
\* read_volume: the number truncated, or Nothing where float() raises
int_float(t) ==
    CASE t = "0"   -> Some(0)
      [] t = "1.5" -> Some(1)
      [] t = "2.0" -> Some(2)
      [] OTHER     -> Nothing

\* main2.py:509-518 / main.py:391-400  reading_status_map.get(raw, "CURRENT")
reading_status_map(m) ==
    LET raw == IF "reading_status" \in DOMAIN m THEN m.reading_status ELSE None
    IN CASE raw \in {"reading", "re_reading"} -> "CURRENT"
         [] raw = "completed"    -> "COMPLETED"
         [] raw = "on_hold"      -> "PAUSED"
         [] raw = "dropped"      -> "DROPPED"
         [] raw = "plan_to_read" -> "PLANNING"
         [] OTHER                -> "CURRENT"

\* main2.py:520-524  float(user_rating), None when the item has none
score_of(m) ==
    IF "user_rating" \in DOMAIN m THEN Some(m.user_rating) ELSE Nothing

\* main2.py:527-534  int(float(manga.get(key, 0))), None where that raises
progress_of(m, key) ==
    IF key \in DOMAIN m THEN int_float(m[key]) ELSE Some(0)

\* main2.py:535-541  the dict before the filter; a Python None is Nothing
RawVariables(m) ==
    [mediaId         |-> Some(int_of(al_id_of(m))),
     status          |-> Some(reading_status_map(m)),
     score           |-> score_of(m),
     progress        |-> progress_of(m, "read_chapter"),
     progressVolumes |-> progress_of(m, "read_volume")]

KeepNone(raw) == raw

\* main2.py:543  {k: v for k, v in variables.items() if v is not None}
RemoveNone(raw) == [k \in {x \in DOMAIN raw : raw[x] # Nothing} |-> raw[k]]

\* main2.py:535-543 / main.py:401  the variables of the mutation
MutationVariables(m) ==
    IF variant = "main2"
    THEN RemoveNone(RawVariables(m))
    ELSE [mediaId |-> Some(int_of(al_id_of(m))),
          status  |-> Some(reading_status_map(m))]

\* main2.py:489-552 / main.py:382-412  one mutation call
SyncMutate(outcome) ==
    /\ spc = "call"
    /\ sidx <= Len(manga_with_al_id)
    /\ mutations' = Append(mutations, manga_with_al_id[sidx].id)
    /\ sobs' = [sobs EXCEPT
                  !.failed = IF outcome = "raise"
                             THEN @ \cup {manga_with_al_id[sidx].id} ELSE @,
                  !.soft = IF outcome = "errors"
                           THEN @ \cup {manga_with_al_id[sidx].id} ELSE @,
                  !.sent = Append(@, [id |-> manga_with_al_id[sidx].id,
                                      variables |->
                                          MutationVariables(manga_with_al_id[sidx])])]
    /\ spc' = AfterMutation(outcome)
    /\ UNCHANGED <<mangas, manga_with_al_id, manga_without_al_id, sidx, csvOut>>

\* main2.py:553 / main.py:413  time.sleep(2.1), then the next item
SyncSleep ==
    /\ spc = "sleep"
    /\ sidx' = sidx + 1
    /\ sobs' = [sobs EXCEPT !.slept = @ + 1]
    /\ spc' = IF sidx + 1 <= Len(manga_with_al_id) THEN "call" ELSE "after"
    /\ UNCHANGED <<mangas, manga_with_al_id, manga_without_al_id, mutations, csvOut>>

\* main2.py:554-556 / main.py:414-416
SyncAfterLoop ==
    /\ spc = "after"
    /\ csvOut' = IF manga_without_al_id # <<>>
                 THEN Some([file |-> UnlinkedFile, items |-> manga_without_al_id])
                 ELSE csvOut
    /\ spc' = "done"
    /\ UNCHANGED <<mangas, manga_with_al_id, manga_without_al_id, sidx, mutations, sobs>>

\* main2.py:557-559 / main.py:417-419
SyncNoneLinked ==
    /\ spc = "csv_all"
    /\ csvOut' = Some([file |-> NoneLinkedFile, items |-> mangas])
    /\ spc' = "done"
    /\ UNCHANGED <<mangas, manga_with_al_id, manga_without_al_id, sidx, mutations, sobs>>

InitSync ==
    /\ TransportIdle
    /\ EnrichIdle
    /\ PartitionIdle
    /\ XmlIdle
    /\ FilesIdle
    /\ ThreadsIdle
    /\ CsvIdle
    /\ MenuIdle
    /\ variant \in {"main", "main2"}
    /\ mangas \in AllItemLists
    /\ spc = "split"
    /\ manga_with_al_id = <<>>
    /\ manga_without_al_id = <<>>
    /\ sidx = 0
    /\ mutations = <<>>
    /\ csvOut = Nothing
    /\ sobs = [failed |-> {}, soft |-> {}, slept |-> 0, auth |-> FALSE,
               sent |-> <<>>]

NextSync ==
    \/ SyncSplit /\ UNCHANGED notSync
    \/ \E ok \in BOOLEAN : SyncAuthorize(ok) /\ UNCHANGED notSync
    \/ \E outcome \in MutationOutcomes : SyncMutate(outcome) /\ UNCHANGED notSync
    \/ SyncSleep /\ UNCHANGED notSync
    \/ SyncAfterLoop /\ UNCHANGED notSync
    \/ SyncNoneLinked /\ UNCHANGED notSync

SpecSync == InitSync /\ [][NextSync]_vars

\* C9: a failing mutation call does not halt the sink: when the sink has
\* ended after a successful authorization, every item with an AniList id got
\* its mutation call and the items without one were written to the CSV file.
C9_FailedMutationDoesNotHaltLoop ==
    (spc \in {"done", "raised"} /\ sobs.auth) =>
        /\ mutations = IdsOf(SelectSeq(mangas, LAMBDA m : Truthy(al_id_of(m))))
        /\ LET rest == SelectSeq(mangas, LAMBDA m : ~Truthy(al_id_of(m)))
           IN rest # <<>> => (csvOut # Nothing /\ csvOut[1].items = rest)

\* C24: mutation calls are issued one after the other, and between a
\* mutation call and the next one the cooldown has been taken, whether the
\* call was answered with success or with GraphQL errors: whenever the sink
\* is about to issue a call, every call issued so far was followed by its
\* sleep, and at no time is more than one call without its sleep.
C24_CooldownBetweenMutationCalls ==
    /\ spc = "call" => sobs.slept = Len(mutations)
    /\ sobs.slept <= Len(mutations)
    /\ Len(mutations) <= sobs.slept + 1

C24_Witness ==
    /\ spc = "done"
    /\ Len(mutations) = 2
    /\ sobs.slept = 2
    /\ sobs.soft # {}

(***************************************************************************)
(* The split of import_to_anilist_then_export (main2.py:717-740)           *)
(***************************************************************************)

ClassifyMalFirst(m) ==
    IF Truthy(mal_id_of(m)) THEN "mal"
    ELSE IF Truthy(al_id_of(m)) THEN "al"
    ELSE "none"

\* main2.py:723-732
Classify(m) ==
    IF Truthy(al_id_of(m)) THEN "al"
    ELSE IF Truthy(mal_id_of(m)) THEN "mal"
    ELSE "none"

\* main2.py:722-732  one pass of the loop
SplitStep ==
    /\ ppc = "split"
    /\ pidx <= Len(manga_info)
    /\ LET m == manga_info[pidx]
           c == Classify(m)
       IN /\ manga_with_alid' = IF c = "al" THEN Append(manga_with_alid, m)
                                ELSE manga_with_alid
          /\ manga_with_malid' = IF c = "mal" THEN Append(manga_with_malid, m)
                                 ELSE manga_with_malid
          /\ manga_unlinked' = IF c = "none" THEN Append(manga_unlinked, m)
                               ELSE manga_unlinked
    /\ pidx' = pidx + 1
    /\ UNCHANGED <<manga_info, ppc, dispatched>>

\* The sink calls at main2.py:734-740, in program order
SinkCalls ==
    (IF manga_with_alid # <<>>
     THEN <<[sink |-> "sync_to_anilist", items |-> manga_with_alid]>> ELSE <<>>)
    \o (IF manga_with_malid # <<>>
        THEN <<[sink |-> "export_manga_list_to_xml", items |-> manga_with_malid]>>
        ELSE <<>>)
    \o (IF manga_unlinked # <<>>
        THEN <<[sink |-> "export_unlinked_to_csv", items |-> manga_unlinked]>>
        ELSE <<>>)

\* main2.py:734-740  the next sink call; a call that raises ends the function
SplitDispatch(ok) ==
    /\ ppc = "split"
    /\ pidx > Len(manga_info)
    /\ Len(dispatched) < Len(SinkCalls)
    /\ dispatched' = Append(dispatched, SinkCalls[Len(dispatched) + 1])
    /\ ppc' = IF ok THEN "split" ELSE "raised"
    /\ UNCHANGED <<manga_info, pidx, manga_with_alid, manga_with_malid, manga_unlinked>>

\* main2.py:740  the function returns
SplitReturn ==
    /\ ppc = "split"
    /\ pidx > Len(manga_info)
    /\ Len(dispatched) = Len(SinkCalls)
    /\ ppc' = "done"
    /\ UNCHANGED <<manga_info, pidx, manga_with_alid, manga_with_malid,
                   manga_unlinked, dispatched>>

InitPartition ==
    /\ TransportIdle
    /\ EnrichIdle
    /\ SyncIdle
    /\ XmlIdle
    /\ FilesIdle
    /\ ThreadsIdle
    /\ CsvIdle
    /\ MenuIdle
    /\ variant = "main2"
    /\ manga_info \in AllItemLists
    /\ ppc = "split"
    /\ pidx = 1
    /\ manga_with_alid = <<>>
    /\ manga_with_malid = <<>>
    /\ manga_unlinked = <<>>
    /\ dispatched = <<>>

NextPartition ==
    \/ SplitStep /\ UNCHANGED notPartition
    \/ \E ok \in BOOLEAN : SplitDispatch(ok) /\ UNCHANGED notPartition
    \/ SplitReturn /\ UNCHANGED notPartition

SpecPartition == InitPartition /\ [][NextPartition]_vars

\* The item carries Id-B (an AniList id) / Id-A (a MyAnimeList id)
HasIdB(m) == m.links.dict /\ m.links.al # ""

HasIdA(m) == m.links.dict /\ m.links.mal # ""

Occurrences(q, m) == Cardinality({i \in DOMAIN q : q[i] = m})

\* The list holds items of the input in the input's relative order.
KeepsInputOrder(q) ==
    /\ \A i \in DOMAIN q : q[i].id \in DOMAIN manga_info /\ manga_info[q[i].id] = q[i]
    /\ \A i, j \in DOMAIN q : i < j => q[i].id < q[j].id

\* C10: at every point of the split the three lists are a total, pairwise
\* disjoint, order-preserving split of the items looked at so far: each such
\* item is in exactly one list, an item with Id-B is in the first whether or
\* not it has Id-A, one with Id-A and no Id-B in the second, one with neither
\* in the third, and each list keeps the input's order.
C10_SplitIsTotalDisjointOrdered ==
    ppc # "idle" =>
        /\ \A i \in 1..(pidx - 1) :
              LET m == manga_info[i]
              IN /\ Occurrences(manga_with_alid, m) + Occurrences(manga_with_malid, m)
                       + Occurrences(manga_unlinked, m) = 1
                 /\ HasIdB(m) => Occurrences(manga_with_alid, m) = 1
                 /\ (~HasIdB(m) /\ HasIdA(m)) => Occurrences(manga_with_malid, m) = 1
                 /\ (~HasIdB(m) /\ ~HasIdA(m)) => Occurrences(manga_unlinked, m) = 1
        /\ Len(manga_with_alid) + Len(manga_with_malid) + Len(manga_unlinked) = pidx - 1
        /\ KeepsInputOrder(manga_with_alid)
        /\ KeepsInputOrder(manga_with_malid)
        /\ KeepsInputOrder(manga_unlinked)

\* C10 witness: a finished split of three items, one per list, in which the
\* item of the first list carries both ids and is not the first of the input.
C10_Witness ==
    /\ ppc = "done"
    /\ Len(manga_info) = 3
    /\ Len(manga_with_alid) = 1
    /\ Len(manga_with_malid) = 1
    /\ Len(manga_unlinked) = 1
    /\ HasIdA(manga_with_alid[1])
    /\ manga_with_alid[1].id > 1

(***************************************************************************)
(* XML export: export_manga_list_to_xml (main2.py:343-455, main.py:226-359) *)
(***************************************************************************)

\* The lists of n items handed to the XML export: every link kind at every
\* position, the reading statuses assigned in rotation.
XmlLists(n) ==
    {[i \in 1..n |-> WithStatus(L[i], (i + o) % (Len(ReadingStatuses) + 1))] :
        L \in ItemLists(n), o \in 0..Len(ReadingStatuses)}

AllXmlLists == UNION {XmlLists(n) : n \in 0..MaxItems}

\* main2.py:422-427  the labels with a counter
TotalLabels == {"Reading", "Completed", "On-Hold", "Dropped", "Plan to Read"}

\* main2.py:379-383  manga.get("reading_status"), else the attribute's
\* default (the attributes of the service carry no reading status)
reading_status_of(m) ==
    IF "reading_status" \in DOMAIN m THEN m.reading_status ELSE "plan_to_read"

manga_status_map_no_default(rs) ==
    CASE rs \in {"reading", "re_reading"} -> "Reading"
      [] rs = "completed"    -> "Completed"
      [] rs = "on_hold"      -> "On-Hold"
      [] rs = "dropped"      -> "Dropped"
      [] rs = "plan_to_read" -> "Plan to Read"
      [] OTHER               -> "None"

\* main2.py:360-367, 384  manga_status_map.get(reading_status, "Reading")
manga_status_map(rs) ==
    CASE rs \in {"reading", "re_reading"} -> "Reading"
      [] rs = "completed"    -> "Completed"
      [] rs = "on_hold"      -> "On-Hold"
      [] rs = "dropped"      -> "Dropped"
      [] rs = "plan_to_read" -> "Plan to Read"
      [] OTHER               -> "Reading"

\* main2.py:385-394  the if/elif chain: a label without a branch counts nowhere
Counted(t, status) ==
    IF status \in DOMAIN t THEN [t EXCEPT ![status] = @ + 1] ELSE t

\* main2.py:369-421  one pass of the loop
XmlItem ==
    /\ xpc = "loop"
    /\ xidx <= Len(manga_info_list)
    /\ LET m == manga_info_list[xidx]
           status == manga_status_map(reading_status_of(m))
       IN IF ~Truthy(mal_id_of(m))
          THEN /\ not_found' = not_found + 1
               /\ unlinked' = Append(unlinked, m)
               /\ UNCHANGED <<exported, totals, entries>>
          ELSE /\ exported' = exported + 1
               /\ totals' = Counted(totals, status)
               /\ entries' = Append(entries, [id |-> m.id,
                                              manga_mangadb_id |-> mal_id_of(m),
                                              my_status |-> status])
               /\ UNCHANGED <<not_found, unlinked>>
    /\ xidx' = xidx + 1
    /\ UNCHANGED <<manga_info_list, xpc, xmlFile, answer, byMalCsv>>

\* main2.py:422-446  the totals are added and the document is written
XmlWrite ==
    /\ xpc = "loop"
    /\ xidx > Len(manga_info_list)
    /\ xmlFile' = Some([user_total_manga      |-> exported,
                        user_total_reading    |-> totals["Reading"],
                        user_total_completed  |-> totals["Completed"],
                        user_total_onhold     |-> totals["On-Hold"],
                        user_total_dropped    |-> totals["Dropped"],
                        user_total_plantoread |-> totals["Plan to Read"],
                        manga                 |-> entries])
    /\ xpc' = "prompt"
    /\ UNCHANGED <<manga_info_list, xidx, exported, not_found, totals, entries,
                   unlinked, answer, byMalCsv>>

Answers == {"y", "n", "x"}

\* main2.py:448-455  'y' calls the remote import sink on the unlinked items,
\* any other answer writes them to export/unlinked_by_MAL.csv
XmlAnswer(a) ==
    /\ xpc = "prompt"
    /\ answer' = a
    /\ IF a = "y"
       THEN /\ mangas' = unlinked
            /\ spc' = "split"
            /\ xpc' = "sync"
            /\ UNCHANGED byMalCsv
       ELSE /\ byMalCsv' = Some(unlinked)
            /\ xpc' = "done"
            /\ UNCHANGED <<mangas, spc>>
    /\ UNCHANGED <<manga_info_list, xidx, exported, not_found, totals, entries,
                   unlinked, xmlFile>>
    /\ UNCHANGED <<manga_with_al_id, manga_without_al_id, sidx, mutations,
                   csvOut, sobs>>

\* main2.py:450  the sink returns, or its exception leaves the export
XmlSyncEnds ==
    /\ xpc = "sync"
    /\ spc \in {"done", "raised"}
    /\ xpc' = spc
    /\ UNCHANGED <<manga_info_list, xidx, exported, not_found, totals, entries,
                   unlinked, xmlFile, answer, byMalCsv>>
    /\ UNCHANGED svars

InitXml ==
    /\ TransportIdle
    /\ EnrichIdle
    /\ SyncIdle
    /\ PartitionIdle
    /\ FilesIdle
    /\ ThreadsIdle
    /\ CsvIdle
    /\ MenuIdle
    /\ variant \in {"main", "main2"}
    /\ manga_info_list \in AllXmlLists
    /\ xpc = "loop"
    /\ xidx = 1
    /\ exported = 0
    /\ not_found = 0
    /\ totals = [l \in TotalLabels |-> 0]
    /\ entries = <<>>
    /\ unlinked = <<>>
    /\ xmlFile = Nothing
    /\ answer = ""
    /\ byMalCsv = Nothing

NextXml ==
    \/ XmlItem /\ UNCHANGED notXml
    \/ XmlWrite /\ UNCHANGED notXml
    \/ \E a \in Answers : XmlAnswer(a) /\ UNCHANGED <<tvars, evars, pvars, fvars, hvars, cvars, mvars>>
    \/ XmlSyncEnds /\ UNCHANGED <<tvars, evars, pvars, fvars, hvars, cvars, mvars>>
    \/ NextSync

SpecXml == InitXml /\ [][NextXml]_vars

SumOfTotals(f) ==
    f.user_total_reading + f.user_total_completed + f.user_total_onhold
        + f.user_total_dropped + f.user_total_plantoread

\* C11: whatever the input list (empty, or with items whose reading status
\* is absent or unknown), the user_total_manga of the written document
\* equals the sum of its five per-status totals and the number of its
\* <manga> elements.
C11_TotalsAgree ==
    xmlFile # Nothing =>
        /\ xmlFile[1].user_total_manga = SumOfTotals(xmlFile[1])
        /\ xmlFile[1].user_total_manga = Len(xmlFile[1].manga)

\* C11 witness: a document was written for a list holding an exported item
\* without reading status, an exported item with an unknown one, and an item
\* that was not exported.
C11_Witness ==
    /\ xmlFile # Nothing
    /\ Len(xmlFile[1].manga) = 2
    /\ unlinked # <<>>
    /\ \E i, j \in DOMAIN manga_info_list :
          /\ HasIdA(manga_info_list[i])
          /\ "reading_status" \notin DOMAIN manga_info_list[i]
          /\ HasIdA(manga_info_list[j])
          /\ "reading_status" \in DOMAIN manga_info_list[j]
          /\ manga_info_list[j].reading_status = "paused"

Deliveries(id) ==
    (IF byMalCsv # Nothing THEN CountId(byMalCsv[1], id) ELSE 0)
        + (IF csvOut # Nothing THEN CountId(csvOut[1].items, id) ELSE 0)
        + Cardinality({k \in DOMAIN mutations : mutations[k] = id})

\* C12: when an XML export has ended, no item without Id-A is among the
\* <manga> elements, and each such item went to exactly one secondary sink:
\* a CSV file or a mutation call when the operator answered y, the CSV file
\* export/unlinked_by_MAL.csv otherwise.
C12_UnlinkedGoToExactlyOneSink ==
    xpc \in {"done", "raised"} =>
        \A i \in DOMAIN manga_info_list :
            LET m == manga_info_list[i]
            IN ~HasIdA(m) =>
                  /\ \A k \in DOMAIN entries : entries[k].id # m.id
                  /\ Deliveries(m.id) = 1
                  /\ (answer = "y") <=> (byMalCsv = Nothing)

(***************************************************************************)
(* The remote import sink on enriched items (main2.py:458-559)             *)
(***************************************************************************)

\* The items get_manga_info hands to the sink: any reading status or none,
\* a rating or none, progress text or none.
WithKeys(m, st, ra, ch, vo) ==
    LET a == WithStatus(m, st)
        b == IF ra = Nothing THEN a ELSE SetKey(a, "user_rating", ra[1])
        c == IF ch = Nothing THEN b ELSE SetKey(b, "read_chapter", ch[1])
    IN IF vo = Nothing THEN c ELSE SetKey(c, "read_volume", vo[1])

RatingValues == {Nothing, Some(0), Some(7)}

ProgressTexts == {Nothing, Some("0"), Some("1.5"), Some("2.0"), Some("x")}

EnrichedLists ==
    {<<>>} \cup
    {<<WithKeys([id |-> 1, links |-> L], st, ra, ch, vo)>> :
        L \in LinkKinds, st \in 0..Len(ReadingStatuses), ra \in RatingValues,
        ch \in ProgressTexts, vo \in ProgressTexts}

\* sync_to_anilist on a list of enriched items
InitPayload ==
    /\ TransportIdle
    /\ EnrichIdle
    /\ PartitionIdle
    /\ XmlIdle
    /\ FilesIdle
    /\ ThreadsIdle
    /\ CsvIdle
    /\ MenuIdle
    /\ variant = "main2"
    /\ mangas \in EnrichedLists
    /\ spc = "split"
    /\ manga_with_al_id = <<>>
    /\ manga_without_al_id = <<>>
    /\ sidx = 0
    /\ mutations = <<>>
    /\ csvOut = Nothing
    /\ sobs = [failed |-> {}, soft |-> {}, slept |-> 0, auth |-> FALSE,
               sent |-> <<>>]

SpecPayload == InitPayload /\ [][NextSync]_vars

ItemOfId(id) == mangas[CHOOSE i \in DOMAIN mangas : mangas[i].id = id]

AniListStatusOf(m) ==
    IF "reading_status" \notin DOMAIN m THEN "CURRENT"
    ELSE IF m.reading_status = "completed" THEN "COMPLETED"
    ELSE IF m.reading_status = "on_hold" THEN "PAUSED"
    ELSE IF m.reading_status = "dropped" THEN "DROPPED"
    ELSE IF m.reading_status = "plan_to_read" THEN "PLANNING"
    ELSE "CURRENT"

Derivable(m, key) == key \notin DOMAIN m \/ m[key] \in {"0", "1.5", "2.0"}

\* C19: the variables of every mutation sync_to_anilist sends hold mediaId,
\* the integer of the item's Id-B, and status, the table's entry for the
\* item's reading status (CURRENT for an unmapped or absent one); score is
\* present exactly when the item has a rating, progress and progressVolumes
\* exactly when a number can be derived from read_chapter / read_volume;
\* no key is sent with a null value.
C19_MutationVariables ==
    \A k \in DOMAIN sobs.sent :
        LET v == sobs.sent[k].variables
            m == ItemOfId(sobs.sent[k].id)
        IN /\ \A key \in DOMAIN v : v[key] # Nothing
           /\ {"mediaId", "status"} \subseteq DOMAIN v
           /\ DOMAIN v \subseteq
                 {"mediaId", "status", "score", "progress", "progressVolumes"}
           /\ v.mediaId = Some(30)
           /\ m.links.al = "30"
           /\ v.status = Some(AniListStatusOf(m))
           /\ ("score" \in DOMAIN v) <=> ("user_rating" \in DOMAIN m)
           /\ "score" \in DOMAIN v => v.score = Some(m.user_rating)
           /\ ("progress" \in DOMAIN v) <=> Derivable(m, "read_chapter")
           /\ ("progressVolumes" \in DOMAIN v) <=> Derivable(m, "read_volume")

\* C19 witness: a mutation was sent for an item with an unmapped reading
\* status, no rating, a fractional chapter text and an unparsable volume
\* text: status CURRENT, progress 1, neither score nor progressVolumes.
C19_Witness ==
    \E k \in DOMAIN sobs.sent :
        LET v == sobs.sent[k].variables
            m == ItemOfId(sobs.sent[k].id)
        IN /\ "reading_status" \in DOMAIN m
           /\ m.reading_status = "paused"
           /\ DOMAIN v = {"mediaId", "status", "progress"}
           /\ v.status = Some("CURRENT")
           /\ v.progress = Some(1)

\* C20: no item without Id-B is the subject of a mutation call: every call
\* is for an item of the list that carries Id-B, and when the sink has gone
\* through its list the items without Id-B are in the CSV file it wrote and
\* nowhere else.
C20_OnlyItemsWithIdBAreSubmitted ==
    /\ \A k \in DOMAIN mutations :
          \E i \in DOMAIN mangas :
              mangas[i].id = mutations[k] /\ HasIdB(mangas[i])
    /\ \A i \in DOMAIN manga_with_al_id : HasIdB(manga_with_al_id[i])
    /\ spc = "done" =>
          \A i \in DOMAIN mangas :
              ~HasIdB(mangas[i]) =>
                  /\ csvOut # Nothing
                  /\ Occurrences(csvOut[1].items, mangas[i]) = 1

\* C20 witness: the sink went through a list holding an item with Id-B, an
\* item with Id-A only and an item with no id: one mutation call, for the
\* first, and a CSV file with the other two.
C20_Witness ==
    /\ spc = "done"
    /\ Len(mangas) = 3
    /\ Len(mutations) = 1
    /\ csvOut # Nothing
    /\ Len(csvOut[1].items) = 2
    /\ \E i \in DOMAIN csvOut[1].items : HasIdA(csvOut[1].items[i])
    /\ \E i \in DOMAIN csvOut[1].items : ~csvOut[1].items[i].links.dict

(***************************************************************************)
(* The file sink: export_all (main2.py:604-623, main.py:464-483) and the   *)
(* functions that write into export/                                       *)
(***************************************************************************)

XmlFileName == "export/manga_library.xml"

JsonFileName == "export/manga_library.json"

CsvFileName == "export/manga_library.csv"

\* The side file the XML export ends with: the CSV of the unlinked items
\* (main2.py:452/455), the CSV of the remote import sink (main2.py:556/559),
\* or none when that sink wrote none.
SideFiles ==
    {"", IF variant = "main2" THEN "export/unlinked_by_MAL.csv"
         ELSE "export/unlisted_by_MAL.csv",
     UnlinkedFile}

\* open(file, "w"): the file is created when its directory exists,
\* FileNotFoundError otherwise
Opened(dir, files, file) == IF dir THEN files \cup {file} ELSE files

\* main2.py:606, 343-455  os.makedirs(..., exist_ok=True), the document,
\* then the side file, written by export_unlinked_to_csv after its own
\* os.makedirs (main2.py:262-263)
FileXml(side) ==
    /\ fstep = "xml"
    /\ "1" \in choices
    /\ side \in SideFiles
    /\ exportDir' = TRUE
    /\ fileset' = fileset \cup {XmlFileName} \cup (IF side = "" THEN {} ELSE {side})
    /\ fwrites' = fwrites \cup {[file |-> XmlFileName, parent |-> TRUE]}
                     \cup (IF side = "" THEN {}
                           ELSE {[file |-> side, parent |-> TRUE]})
    /\ fstep' = "json"
    /\ UNCHANGED choices

\* main2.py:616-619  the JSON branch of export_manga_list opens the file
\* without os.makedirs
FileJson ==
    /\ fstep = "json"
    /\ "2" \in choices
    /\ fileset' = Opened(exportDir, fileset, JsonFileName)
    /\ fwrites' = fwrites \cup {[file |-> JsonFileName, parent |-> exportDir]}
    /\ fstep' = IF exportDir THEN "csv" ELSE "raised"
    /\ UNCHANGED <<exportDir, choices>>

\* main2.py:610, 625-671  os.makedirs(..., exist_ok=True), then the file
FileCsv ==
    /\ fstep = "csv"
    /\ "3" \in choices
    /\ exportDir' = TRUE
    /\ fileset' = fileset \cup {CsvFileName}
    /\ fwrites' = fwrites \cup {[file |-> CsvFileName, parent |-> TRUE]}
    /\ fstep' = "menu"
    /\ UNCHANGED choices

\* main2.py:605, 607, 609  a format that was not chosen is passed over
FileSkip ==
    /\ \/ fstep = "xml" /\ "1" \notin choices /\ fstep' = "json"
       \/ fstep = "json" /\ "2" \notin choices /\ fstep' = "csv"
       \/ fstep = "csv" /\ "3" \notin choices /\ fstep' = "menu"
    /\ UNCHANGED <<exportDir, fileset, choices, fwrites>>

\* main2.py:744-776  back in the menu, the next choices reach export_all
FileMenu(c) ==
    /\ fstep = "menu"
    /\ c \in SUBSET {"1", "2", "3"}
    /\ choices' = c
    /\ fstep' = "xml"
    /\ UNCHANGED <<exportDir, fileset, fwrites>>

\* Between two menu actions the operator removes the directory export/.
FileRemoveDir ==
    /\ fstep = "menu"
    /\ exportDir
    /\ exportDir' = FALSE
    /\ fileset' = {}
    /\ UNCHANGED <<choices, fstep, fwrites>>

\* A fresh checkout has no directory export/.
InitFiles ==
    /\ TransportIdle
    /\ EnrichIdle
    /\ SyncIdle
    /\ PartitionIdle
    /\ XmlIdle
    /\ ThreadsIdle
    /\ CsvIdle
    /\ MenuIdle
    /\ variant \in {"main", "main2"}
    /\ exportDir \in BOOLEAN
    /\ fileset = {}
    /\ choices = {}
    /\ fstep = "menu"
    /\ fwrites = {}

NextFiles ==
    \/ \E side \in SideFiles : FileXml(side) /\ UNCHANGED notFiles
    \/ FileJson /\ UNCHANGED notFiles
    \/ FileCsv /\ UNCHANGED notFiles
    \/ FileSkip /\ UNCHANGED notFiles
    \/ \E c \in SUBSET {"1", "2", "3"} : FileMenu(c) /\ UNCHANGED notFiles
    \/ FileRemoveDir /\ UNCHANGED notFiles

SpecFiles == InitFiles /\ [][NextFiles]_vars

\* C17: every file the file sink opens for writing (XML, JSON, CSV, the
\* side files of the unlinked items) finds its parent directory in place,
\* created by the writer where it was missing.
C17_EveryWriteFindsItsDirectory == \A w \in fwrites : w.parent

(***************************************************************************)
(* request_with_retry in several threads with one session                  *)
(* (main2.py:673-714; callers main2.py:96, 141, 157, 163, 175)             *)
(***************************************************************************)

\* The threads that issue requests with the session: the pool threads of
\* get_manga_info and the orchestrating thread.
NumThreads == 2

Threads == 1..NumThreads

\* Calls of request_with_retry one thread makes.
MaxCalls == 2

\* An activation of request_with_retry called with headers=session.headers:
\* kwargs['headers'] is the session's dict itself (own = Nothing) until the
\* function binds a dict of its own.
Activation ==
    [attempt |-> 0, pc |-> "send", exc |-> None, own |-> Nothing, tok |-> None]

\* The Authorization value a request of the activation carries
HeaderOf(f) == IF f.own # Nothing THEN f.own[1] ELSE session_headers

HeaderTargetOwn(f) == "own"

\* main2.py:689-692  a header dict that is present and non-empty is
\* written in place, otherwise kwargs['headers'] is bound to a new dict
HeaderTarget(f) == IF f.own = Nothing THEN "shared" ELSE "own"

ObsSent(t, f) ==
    IF hobs.done # {}
    THEN [hobs EXCEPT !.sentAfter = @ \cup {[thread |-> t, token |-> HeaderOf(f)]}]
    ELSE hobs

\* A caller invokes request_with_retry (main2.py:96, 141, 157, 163, 175)
ThreadCall(t) ==
    /\ thr[t].pc \in {"idle", "ret", "exc"}
    /\ thr[t].calls < MaxCalls
    /\ thr' = [thr EXCEPT ![t] = [calls |-> thr[t].calls + 1] @@ Activation]
    /\ UNCHANGED <<session_headers, hobs, SESSION_TOKENS>>

\* main2.py:676-704  the request of one pass of the loop
ThreadSend(t, r) ==
    /\ thr[t].pc = "send"
    /\ LET f == thr[t]
       IN thr' = [thr EXCEPT ![t] =
                    CASE r = "net" -> OnNetworkError(f)
                      [] r = "200" -> [f EXCEPT !.pc = "ret"]
                      [] r = "500" -> OnHTTPError(f)
                      [] r = "401" /\ CredentialsFor(MANGA_ENDPOINT) = None ->
                            OnHTTPError(f)
                      [] OTHER -> [f EXCEPT !.pc = "login"]]
    /\ hobs' = ObsSent(t, thr[t])
    /\ UNCHANGED <<session_headers, SESSION_TOKENS>>

LoginOutcomes == {"ok", "HTTPError", "ConnectionError"}

\* main2.py:686  tokens = login(username, password); its exception is
\* re-raised at main2.py:697-699 into the handlers of the outer try
ThreadLogin(t, e, tok) ==
    /\ thr[t].pc = "login"
    /\ tok \in Tokens
    /\ IF e = "ok"
       THEN /\ thr' = [thr EXCEPT ![t].pc = "save", ![t].tok = tok]
            /\ hobs' = [hobs EXCEPT !.issued = @ \cup {tok}]
       ELSE /\ thr' = [thr EXCEPT ![t] = OnException(thr[t], e)]
            /\ UNCHANGED hobs
    /\ UNCHANGED <<session_headers, SESSION_TOKENS>>

\* main2.py:687  save_session(tokens, credentials)
ThreadSave(t) ==
    /\ thr[t].pc = "save"
    /\ SESSION_TOKENS' = thr[t].tok
    /\ thr' = [thr EXCEPT ![t].pc = "header"]
    /\ UNCHANGED <<session_headers, hobs>>

\* main2.py:688-692  the Authorization header is rewritten
ThreadHeader(t) ==
    /\ thr[t].pc = "header"
    /\ IF HeaderTarget(thr[t]) = "shared"
       THEN /\ session_headers' = thr[t].tok
            /\ thr' = [thr EXCEPT ![t].pc = "reissue"]
       ELSE /\ thr' = [thr EXCEPT ![t].pc = "reissue", ![t].own = Some(thr[t].tok)]
            /\ UNCHANGED session_headers
    /\ hobs' = [hobs EXCEPT !.done = @ \cup {t}]
    /\ UNCHANGED SESSION_TOKENS

\* main2.py:694-699  the request after the re-login
ThreadReissue(t, r) ==
    /\ thr[t].pc = "reissue"
    /\ LET f == thr[t]
       IN thr' = [thr EXCEPT ![t] =
                    CASE r = "net" -> OnException(f, "ConnectionError")
                      [] r = "200" -> [f EXCEPT !.pc = "ret"]
                      [] OTHER     -> OnException(f, "HTTPError")]
    /\ hobs' = ObsSent(t, thr[t])
    /\ UNCHANGED <<session_headers, SESSION_TOKENS>>

InitThreads ==
    /\ EnrichIdle
    /\ SyncIdle
    /\ PartitionIdle
    /\ XmlIdle
    /\ FilesIdle
    /\ CsvIdle
    /\ MenuIdle
    /\ variant = "main2"
    /\ stack = <<>>
    /\ obs = InitObs
    /\ SESSION_TOKENS = "T0"
    /\ SESSION_CREDENTIALS \in {None, "creds"}
    /\ session_headers = "T0"
    /\ thr = [t \in Threads |-> [calls |-> 0] @@ [Activation EXCEPT !.pc = "idle"]]
    /\ hobs = [done |-> {}, issued |-> {}, sentAfter |-> {}]

NextThreads ==
    \/ \E t \in Threads : ThreadCall(t) /\ UNCHANGED notThreads
    \/ \E t \in Threads, r \in Responses :
          ThreadSend(t, r) /\ UNCHANGED notThreads
    \/ \E t \in Threads, e \in LoginOutcomes, tok \in Tokens :
          ThreadLogin(t, e, tok) /\ UNCHANGED notThreads
    \/ \E t \in Threads : ThreadSave(t) /\ UNCHANGED notThreads
    \/ \E t \in Threads : ThreadHeader(t) /\ UNCHANGED notThreads
    \/ \E t \in Threads, r \in Responses :
          ThreadReissue(t, r) /\ UNCHANGED notThreads

SpecThreads == InitThreads /\ [][NextThreads]_vars

\* C18: once a 401-triggered re-login has completed, every request a thread
\* issues with the shared session carries a token the login endpoint handed
\* out, never the expired token the session started with.
C18_RequestsAfterReloginCarryFreshToken ==
    \A s \in hobs.sentAfter : s.token \in hobs.issued /\ s.token # "T0"

\* C18 witness: after a thread's re-login had completed, another thread,
\* which never logged in itself, issued a request carrying the new token.
C18_Witness ==
    \E s \in hobs.sentAfter :
        /\ s.thread \notin hobs.done
        /\ s.token \in Tokens

Reauthenticated == {t \in Threads : thr[t].pc \in {"save", "header"}}

\* C28: when threads re-authenticate concurrently, then once none of them
\* is between its login and its header update any more, the Authorization
\* header of the shared session carries the stored SESSION_TOKENS, whatever
\* the interleaving of the threads' steps.
C28_HeaderAgreesWithStoredSession ==
    Reauthenticated = {} => session_headers = SESSION_TOKENS

(***************************************************************************)
(* export_manga_list_to_csv (main2.py:625-671)                             *)
(***************************************************************************)

\* Invocations of the export in one run of the model.
MaxExports == 2

\* export_all hands the list of the XML export to every format
CsvLists == AllXmlLists

\* main2.py:626-628  the columns whose source the items of the model carry
columns == <<"MAL Id", "AL Id", "Reading Status">>

\* main2.py:643-644  links.get(key, '-') if isinstance(links, dict) else '-'
\* (an id the item does not carry is an absent key)
CsvLink(m, v) == IF m.links.dict /\ v # "" THEN v ELSE "-"

\* str.capitalize() of the statuses the items carry
Capitalize(t) ==
    CASE t = "" -> ""
      [] t = "paused" -> "Paused"
      [] t = "reading" -> "Reading"
      [] t = "completed" -> "Completed"
      [] t = "on_hold" -> "On_hold"
      [] t = "dropped" -> "Dropped"
      [] t = "plan_to_read" -> "Plan_to_read"
      [] t = "re_reading" -> "Re_reading"

\* main2.py:629-636, 665-666  reading_status_map.get(raw, raw.capitalize())
CsvReadingStatus(m) ==
    LET raw == IF "reading_status" \in DOMAIN m THEN m.reading_status ELSE ""
    IN CASE raw \in {"reading", "re_reading"} -> "Reading"
         [] raw = "completed"    -> "Completed"
         [] raw = "on_hold"      -> "On-Hold"
         [] raw = "dropped"      -> "Dropped"
         [] raw = "plan_to_read" -> "Plan to Read"
         [] OTHER                -> Capitalize(raw)

\* main2.py:667-669  the row of one item
CsvRow(m) == <<CsvLink(m, mal_id_of(m)), CsvLink(m, al_id_of(m)), CsvReadingStatus(m)>>

\* The file export_manga_list_to_csv leaves for a list
CsvDocument(q) == <<columns>> \o [i \in DOMAIN q |-> CsvRow(q[i])]

\* A file an earlier run of the program left behind
OldFile == <<columns, <<"20", "-", "Dropped">>>>

OpenAppending(old) == IF old = Nothing THEN <<>> ELSE old[1]

\* main2.py:638  open(filename, "w", ...): an existing file is truncated
OpenWriting(old) == <<>>

\* main2.py:637-640  makedirs, open, the header row
CsvOpen ==
    /\ cpc = "open"
    /\ csvfile' = Some(Append(OpenWriting(csvfile), columns))
    /\ crow' = 1
    /\ cpc' = "rows"
    /\ UNCHANGED <<csv_items, csvruns, csvfirst>>

\* main2.py:641-669  one pass of the loop over the list
CsvWriteRow ==
    /\ cpc = "rows"
    /\ crow <= Len(csv_items)
    /\ csvfile' = Some(Append(csvfile[1], CsvRow(csv_items[crow])))
    /\ crow' = crow + 1
    /\ UNCHANGED <<csv_items, cpc, csvruns, csvfirst>>

\* main2.py:670-671  the with block closes the file, the function returns
CsvClose ==
    /\ cpc = "rows"
    /\ crow > Len(csv_items)
    /\ cpc' = "closed"
    /\ csvruns' = csvruns + 1
    /\ csvfirst' = IF csvruns = 0 THEN csvfile ELSE csvfirst
    /\ UNCHANGED <<csv_items, crow, csvfile>>

\* main2.py:610, 623  the export is invoked again on the same list
CsvAgain ==
    /\ cpc = "closed"
    /\ csvruns < MaxExports
    /\ cpc' = "open"
    /\ crow' = 0
    /\ UNCHANGED <<csv_items, csvfile, csvruns, csvfirst>>

InitCsv ==
    /\ TransportIdle
    /\ EnrichIdle
    /\ SyncIdle
    /\ PartitionIdle
    /\ XmlIdle
    /\ FilesIdle
    /\ ThreadsIdle
    /\ MenuIdle
    /\ variant = "main2"
    /\ csv_items \in CsvLists
    /\ cpc = "open"
    /\ crow = 0
    /\ csvfile \in {Nothing, Some(OldFile)}
    /\ csvruns = 0
    /\ csvfirst = Nothing

NextCsv ==
    \/ CsvOpen /\ UNCHANGED notCsv
    \/ CsvWriteRow /\ UNCHANGED notCsv
    \/ CsvClose /\ UNCHANGED notCsv
    \/ CsvAgain /\ UNCHANGED notCsv

SpecCsv == InitCsv /\ [][NextCsv]_vars

\* C22: the CSV export is deterministic and replaces the file: whenever an
\* invocation has ended, the file holds the header and one row per item of
\* the list, whatever the file held before, and an invocation after the
\* first on the same list leaves exactly the file the first one left.
C22_CsvExportIsRepeatable ==
    cpc = "closed" =>
        /\ csvfile = Some(CsvDocument(csv_items))
        /\ csvfile = csvfirst

\* C22 witness: the second invocation on a list of two items has ended.
C22_Witness ==
    /\ cpc = "closed"
    /\ csvruns = 2
    /\ Len(csv_items) = 2

(***************************************************************************)
(* The menu: main() (main2.py:742-776, main.py:553-577) with               *)
(* ensure_valid_session (main2.py:59-90, main.py:50-80); its calls of      *)
(* login and get_manga_library run through the transport actions above     *)
(***************************************************************************)

\* Input lines read in one run of the model.
MaxRounds == 3

\* Pieces between the commas of one input line.
MaxPieces == 2

\* The users who type their credentials at the login prompt
Users == {"A", "B"}

\* The session token the login endpoint hands out for a user
TokenOf(u) == IF u = "A" THEN "T1" ELSE "T2"

\* What the operator types between two commas
Pieces == {"", " ", "1", " 2", "4", "5", "q", "x"}

\* The answers of the services while the menu runs: the network is up
MenuResponses == {"200", "401", "500"}

InputLines == UNION {[1..n -> Pieces] : n \in 1..MaxPieces}

\* str.strip() on the pieces
Strip(p) ==
    CASE p = " "  -> ""
      [] p = " 2" -> "2"
      [] OTHER    -> p

\* main2.py:752 / main.py:562
\* [c.strip() for c in choice.split(',') if c.strip()]
ParseChoices(line) ==
    SelectSeq([i \in DOMAIN line |-> Strip(line[i])], LAMBDA c : c # "")

\* main2.py:753 / main.py:563
valid_choices ==
    IF variant = "main2" THEN {"1", "2", "3", "4", "5", "q"}
    ELSE {"1", "2", "3", "4", "q"}

AnyValid(cs) == \E i \in DOMAIN cs : cs[i] \in valid_choices

\* main2.py:754 / main.py:564  all(c in valid_choices for c in choices)
AllValid(cs) == \A i \in DOMAIN cs : cs[i] \in valid_choices

\* c in choices
Chosen(cs, c) == \E i \in DOMAIN cs : cs[i] = c

\* main2.py:759 '5', main.py:568 '4'
LogoutChoice == IF variant = "main2" THEN "5" ELSE "4"

\* The choices that run a sink: main2.py:765, 773, 775; main.py:574
SinkChoices == IF variant = "main2" THEN {"1", "2", "3", "4"} ELSE {"1", "2", "3"}

\* main2.py:771 runs for every input that came this far; main.py:574 asks
\* for a sink choice first
StartsSession(cs) ==
    IF variant = "main2" THEN TRUE ELSE \E c \in SinkChoices : Chosen(cs, c)

\* main2.py:750-770 / main.py:560-574  one input line, up to the call of
\* ensure_valid_session (whose first statement is tokens = load_session())
MenuInput(line) ==
    /\ mpc = "prompt"
    /\ mround < MaxRounds
    /\ line \in InputLines
    /\ menu_choices' = ParseChoices(line)
    /\ mround' = mround + 1
    /\ LET cs == ParseChoices(line)
       IN CASE ~AllValid(cs) ->
                 /\ mpc' = "prompt"
                 /\ mlog' = {}
                 /\ UNCHANGED <<SESSION_TOKENS, tokens, loggedOut>>
            [] AllValid(cs) /\ Chosen(cs, "q") ->
                 /\ mpc' = "exit"
                 /\ mlog' = {}
                 /\ UNCHANGED <<SESSION_TOKENS, tokens, loggedOut>>
            [] AllValid(cs) /\ ~Chosen(cs, "q") /\ Chosen(cs, LogoutChoice) ->
                 /\ SESSION_TOKENS' = None
                 /\ mpc' = "prompt"
                 /\ mlog' = {"logout"}
                 /\ loggedOut' = TRUE
                 /\ UNCHANGED tokens
            [] OTHER ->
                 /\ mlog' = {}
                 /\ UNCHANGED <<SESSION_TOKENS, loggedOut>>
                 /\ IF variant = "main2" /\ Chosen(cs, "1")
                    THEN mpc' = "confirm" /\ UNCHANGED tokens
                    ELSE IF StartsSession(cs)
                         THEN mpc' = "ensure" /\ tokens' = SESSION_TOKENS
                         ELSE mpc' = "prompt" /\ UNCHANGED tokens
    /\ UNCHANGED <<stack, SESSION_CREDENTIALS, obs, username>>

\* main2.py:765-770  the warning before the import
MenuConfirm(ans) ==
    /\ mpc = "confirm"
    /\ IF ans = "y"
       THEN mpc' = "ensure" /\ tokens' = SESSION_TOKENS
       ELSE mpc' = "prompt" /\ UNCHANGED tokens
    /\ UNCHANGED <<stack, SESSION_TOKENS, SESSION_CREDENTIALS, obs,
                   menu_choices, username, mround, mlog, loggedOut>>

\* main2.py:68-72 / main.py:59-63  no tokens: the prompt, then login()
MenuLoginPrompt(u) ==
    /\ mpc = "ensure"
    /\ tokens = None
    /\ username' = u
    /\ stack' = <<Frame(LOGIN_ENDPOINT, None)>>
    /\ obs' = InitObs
    /\ mpc' = "login"
    /\ mlog' = mlog \cup {"login"}
    /\ UNCHANGED <<SESSION_TOKENS, SESSION_CREDENTIALS,
                   menu_choices, tokens, mround, loggedOut>>

\* main2.py:71-79 / main.py:62-70  login() has returned or raised: the
\* tokens are saved with the typed credentials, or the exception is printed
MenuLoginDone ==
    /\ mpc = "login"
    /\ Finished
    /\ IF Bottom.pc = "ret"
       THEN /\ tokens' = TokenOf(username)
            /\ SESSION_TOKENS' = TokenOf(username)
            /\ SESSION_CREDENTIALS' = IF variant = "main2" THEN username
                                      ELSE SESSION_CREDENTIALS
            /\ loggedOut' = FALSE
       ELSE UNCHANGED <<tokens, SESSION_TOKENS, SESSION_CREDENTIALS, loggedOut>>
    /\ stack' = <<>>
    /\ mpc' = "ensure"
    /\ UNCHANGED <<obs, menu_choices, username, mround, mlog>>

\* main2.py:65-67, 81-83 / main.py:56-58, 72-74  tokens: a session with
\* their bearer header, then get_manga_library(session)
MenuCheck ==
    /\ mpc = "ensure"
    /\ tokens # None
    /\ stack' = <<Frame(MANGA_ENDPOINT, tokens)>>
    /\ obs' = InitObs
    /\ mpc' = "check"
    /\ mlog' = mlog \cup {"check"}
    /\ UNCHANGED <<SESSION_TOKENS, SESSION_CREDENTIALS,
                   menu_choices, tokens, username, mround, loggedOut>>

\* The status an HTTPError of the finished call can carry: that of the last
\* answer the call itself got, or, when its nested login failed, that of
\* the login's answer
CanBe401 == obs.nBad = 0

CanBeOther == obs.nBad > 0 \/ (obs.logins > 0 /\ obs.reissues = 0)

\* main2.py:83-90 / main.py:74-80  the check has returned or raised
MenuCheckDone(is401) ==
    /\ mpc = "check"
    /\ Finished
    /\ IF Bottom.pc = "ret"
       THEN /\ is401 = FALSE
            /\ mpc' = "fetch"
            /\ UNCHANGED <<stack, tokens>>
       ELSE IF Bottom.exc = "HTTPError"
            THEN /\ IF is401 THEN CanBe401 ELSE CanBeOther
                 /\ stack' = <<>>
                 /\ IF is401
                    THEN mpc' = "ensure" /\ tokens' = None
                    ELSE mpc' = "terminated" /\ UNCHANGED tokens
            ELSE /\ is401 = FALSE
                 /\ stack' = <<>>
                 /\ mpc' = "terminated"
                 /\ UNCHANGED tokens
    /\ UNCHANGED <<SESSION_TOKENS, SESSION_CREDENTIALS, obs,
                   menu_choices, username, mround, mlog, loggedOut>>

\* main2.py:772, 235-239 / main.py:576  fetch_and_prepare_manga_info: its
\* requests carry the headers of the session the check has used
MenuFetch ==
    /\ mpc = "fetch"
    /\ stack' = <<Frame(MANGA_ENDPOINT, Bottom.hdr)>>
    /\ obs' = InitObs
    /\ mpc' = "fetching"
    /\ mlog' = mlog \cup {"fetch"}
    /\ UNCHANGED <<SESSION_TOKENS, SESSION_CREDENTIALS,
                   menu_choices, tokens, username, mround, loggedOut>>

\* main2.py:772-776 / main.py:576-577  the fetch has returned: the sinks
\* run; or it has raised, and nothing in main() catches the exception
MenuSinks ==
    /\ mpc = "fetching"
    /\ Finished
    /\ stack' = <<>>
    /\ IF Bottom.pc = "ret"
       THEN /\ mpc' = "prompt"
            /\ mlog' = mlog
                  \cup (IF variant = "main2" /\ Chosen(menu_choices, "1")
                        THEN {"import"} ELSE {})
                  \cup (IF variant = "main"
                           \/ \E c \in {"2", "3", "4"} : Chosen(menu_choices, c)
                        THEN {"export"} ELSE {})
       ELSE /\ mpc' = "terminated"
            /\ UNCHANGED mlog
    /\ UNCHANGED <<SESSION_TOKENS, SESSION_CREDENTIALS, obs,
                   menu_choices, tokens, username, mround, loggedOut>>

\* main2.py:683-687  login(username, password) with the stored pair: the
\* tokens it returns are those of the user whose credentials are stored
ReloginReturns(tok) ==
    /\ Len(stack) > 1
    /\ Top.pc = "ret" => tok = TokenOf(SESSION_CREDENTIALS)
    /\ LoginReturns(tok)

InitMenu ==
    /\ EnrichIdle
    /\ SyncIdle
    /\ PartitionIdle
    /\ XmlIdle
    /\ FilesIdle
    /\ ThreadsIdle
    /\ CsvIdle
    /\ variant \in {"main", "main2"}
    /\ stack = <<>>
    /\ SESSION_TOKENS = None
    /\ SESSION_CREDENTIALS = None
    /\ obs = InitObs
    /\ mpc = "prompt"
    /\ menu_choices = <<>>
    /\ tokens = None
    /\ username = None
    /\ mround = 0
    /\ mlog = {}
    /\ loggedOut = FALSE

NextMenu ==
    \/ \E line \in InputLines : MenuInput(line) /\ UNCHANGED notMenu
    \/ \E ans \in {"y", "n"} : MenuConfirm(ans) /\ UNCHANGED notMenu
    \/ \E u \in Users : MenuLoginPrompt(u) /\ UNCHANGED notMenu
    \/ MenuLoginDone /\ UNCHANGED notMenu
    \/ MenuCheck /\ UNCHANGED notMenu
    \/ \E is401 \in BOOLEAN : MenuCheckDone(is401) /\ UNCHANGED notMenu
    \/ MenuFetch /\ UNCHANGED notMenu
    \/ MenuSinks /\ UNCHANGED notMenu
    \/ \E r \in MenuResponses : Send(r) /\ UNCHANGED notTransport
    \/ \E r \in MenuResponses : Reissue(r) /\ UNCHANGED notTransport
    \/ \E tok \in Tokens : ReloginReturns(tok) /\ UNCHANGED notTransport

SpecMenu == InitMenu /\ [][NextMenu]_vars

\* What main() did for the last input line that reaches a service
Remote == {"login", "check", "fetch"}

\* C21: an input line with a token that is no valid choice is rejected as
\* a whole: nothing is done for its valid tokens (no login, session check,
\* fetch, export, import or logout, no request under way), and the menu is
\* at its prompt again.
C21_InvalidTokenRejectsWholeInput ==
    (\E i \in DOMAIN menu_choices : menu_choices[i] \notin valid_choices) =>
        /\ mpc = "prompt"
        /\ mlog = {}
        /\ stack = <<>>

\* C21 witness: a line with a valid sink choice and an invalid token was
\* read by a program that holds a session.
C21_Witness ==
    /\ menu_choices = <<"2", "x">>
    /\ SESSION_TOKENS # None
    /\ mpc = "prompt"

\* C29: after a logout and until an interactive login has succeeded, the
\* stored session token stays unset and no login is made with the stored
\* credentials of the user who logged out.
C29_LogoutForgetsTheUser ==
    loggedOut =>
        /\ SESSION_TOKENS = None
        /\ \A i \in DOMAIN stack : stack[i].url = LOGIN_ENDPOINT => i = 1

\* C30: main() starts the session check and the fetch only for an input
\* that selects a sink, and an input with quit or logout starts no fetch,
\* export or import.
C30_SessionStartsOnlyForASink ==
    /\ (mlog \cap Remote # {} \/ mpc \in {"ensure", "login", "check", "fetch", "fetching"})
          => \E c \in SinkChoices : Chosen(menu_choices, c)
    /\ (Chosen(menu_choices, "q") \/ Chosen(menu_choices, LogoutChoice))
          => mlog \cap {"fetch", "export", "import"} = {}

====
